---- MODULE Spec2Model ----
(***************************************************************************)
(* A model of the browser-driven conversational LLM client                *)
(* (src/chatgpt_web.py, class ChatGPTWebLLM): the session build            *)
(* (_initialize), one submission (_send_message), the synchronous bridge   *)
(* (invoke, _run_in_thread), the flattening of a message list into a       *)
(* prompt (_format_messages) and close.                                    *)
(*                                                                         *)
(* The browser, its driver process and the page are the environment: the  *)
(* pipe to the driver process, the liveness of the page handle, and the   *)
(* conversation markup (the elements the response selectors match).       *)
(* The environment moves at every point where the code awaits.            *)
(***************************************************************************)
EXTENDS Integers, Sequences, FiniteSets, TLC

\* ------------------------------------------------------------------ bounds
\* driver processes counted as left running (more are counted as this many)
MaxOrphans == 2
\* messages in a list handed to _format_messages
MaxMsgs == 4
\* invoke calls made per caller in one behaviour
MaxCalls == 2

\* ------------------------------------------------------- program constants
\* response poll: max_wait = 90, waited += 2
max_wait == 90
poll_step == 2
\* login wait: max_wait = 300, waited += 2
login_max_wait == 300
login_step == 2
\* pre-submission loading wait: range(15)
load_polls == 15
\* minimum length of an accepted response: len(text.strip()) > 10
min_len == 10
\* errno of a broken pipe (EPIPE)
EPIPE == 32

Callers == {1, 2}

\* --------------------------------------------------------------- exceptions
\* An exception is a record: its class, the tag of its message, and whether
\* str(e) contains "Broken pipe" or "Errno 32".
NoExc == [cls |-> "none", msg |-> "none", pipeText |-> FALSE]

Exc(cls, msg, pipeText) == [cls |-> cls, msg |-> msg, pipeText |-> pipeText]

\* BrokenPipeError is the OSError whose errno is EPIPE; str(e) is
\* "[Errno 32] Broken pipe".
BrokenPipeErr == Exc("BrokenPipeError", "BrokenPipe", TRUE)
\* an OSError with another errno (a PermissionError, a FileNotFoundError)
OtherOSErr == Exc("OSError", "OSError", FALSE)
RuntimeErr == Exc("RuntimeError", "RuntimeError", FALSE)
PwTimeout == Exc("PlaywrightTimeoutError", "Timeout", FALSE)
PwError == Exc("PlaywrightError", "PlaywrightError", FALSE)
\* a Playwright error whose message carries the transport's "Broken pipe"
PwPipeError == Exc("PlaywrightError", "BrokenPipe", TRUE)
\* a launch failure naming the profile lock (ProcessSingleton / SingletonLock)
PwLockError == Exc("PlaywrightError", "SingletonLock", FALSE)

ValueErr(msg, pipeText) == Exc("ValueError", msg, pipeText)

IsOSError(e) == e.cls \in {"BrokenPipeError", "OSError"}
Errno(e) == IF e.cls = "BrokenPipeError" THEN EPIPE ELSE 0
IsBrokenPipe(e) == e.cls = "BrokenPipeError" \/ (IsOSError(e) /\ Errno(e) = EPIPE)
HasPipeText(e) == e.pipeText

\* what a broken pipe raises in an awaited browser operation
PipeFaults == {BrokenPipeErr, PwPipeError}
\* what an awaited browser operation raises while the pipe is intact
OpFaults == {PwTimeout, PwError, RuntimeErr}
\* every exception the environment can raise
AllFaults == OpFaults \cup PipeFaults \cup {OtherOSErr, PwLockError}

\* ------------------------------------------------------------ conversation
\* The text of an element: the length of its content after strip(), and
\* whether the raw innerText carries surrounding whitespace.
Text(core, pad) == [core |-> core, pad |-> pad]
\* lengths of an assistant turn's text while it streams: nothing yet,
\* exactly the threshold, just above it
CoreLens == {0, min_len, min_len + 1}
\* the length of a complete answer
FullLens == {min_len + 1}
\* lengths of the prompts a caller sends: below and above the threshold
PromptLens == {4, 30}
\* str.strip()
Strip(txt) == Text(txt.core, FALSE)
\* len(str)
StrLen(txt) == txt.core + (IF txt.pad THEN 1 ELSE 0)

\* response_selectors, in list order:
\*  1 div[data-message-author-role="assistant"]   2 div[class*="markdown"]
\*  3 div[class*="message"]   4 div[class*="AssistantMessage"]
\*  5 div[role="assistant"]
response_selectors == 1 .. 5
\* loading_selectors: 1 button[aria-label*="Stop"], 2 div[class*="loading"],
\* 3 div[class*="typing"]
loading_selectors == 1 .. 3

\* The markup of the conversation page: which turn elements a response
\* selector matches.  "strict": only the author-role attribute marks a turn.
\* "classed": besides it, every assistant turn holds a markdown block
\* (selector 2) and every turn, the user's included, carries a class whose
\* name contains "message" (selector 3).
Layouts == {"strict", "classed"}

Matches(layout, s, el) ==
    CASE s = 1 -> el.role = "assistant"
      [] s = 2 -> layout = "classed" /\ el.role = "assistant"
      [] s = 3 -> layout = "classed"
      [] OTHER -> FALSE

\* document.querySelectorAll(selector): the indices, in document order, of
\* the turn elements the selector matches
Query(d, s) == SelectSeq([i \in 1 .. Len(d.els) |-> i],
                         LAMBDA i : Matches(d.layout, s, d.els[i]))

\* the busy indicators shown while a response streams
BusySets == {{1, 3}}

\* lens: the lengths the text of a streaming turn passes through; eager:
\* whether an answer under way advances at every pause of the program
BlankDom(layout, lens, eager) ==
    [els |-> << >>, gen |-> "idle", cur |-> 0, busy |-> {}, layout |-> layout,
     lens |-> lens, eager |-> eager]

\* the page after a navigation to the site: a fresh conversation
Fresh(d) == BlankDom(d.layout, d.lens, d.eager)

\* What the page may have become by the time an awaited operation returns:
\* a queued response starts streaming (a new assistant turn is appended and a
\* busy indicator shown), a streaming turn's text grows, the stream ends.
\* Turns are never removed and a turn's text never shrinks.
GrowCur(d, core, pad) ==
    [d.els EXCEPT ![d.cur] = [@ EXCEPT !.txt = Text(core, pad)]]

Evolve(d) ==
    (IF d.eager /\ d.gen # "idle" THEN {} ELSE {d})
    \cup (IF d.gen = "queued"
          THEN {[d EXCEPT !.gen = g,
                          !.busy = IF g = "stream" THEN b ELSE {},
                          !.cur = Len(d.els) + 1,
                          !.els = Append(d.els, [role |-> "assistant",
                                                 txt |-> Text(n, n > 0)])] :
                  <<g, b, n>> \in {"stream", "idle"} \X BusySets \X d.lens}
          ELSE {})
    \cup (IF d.gen = "stream"
          THEN {[d EXCEPT !.gen = g,
                          !.busy = IF g = "stream" THEN d.busy ELSE {},
                          !.els = GrowCur(d, n, n > 0)] :
                  <<g, n>> \in {x \in {"stream", "idle"} \X d.lens :
                                      x[2] >= d.els[d.cur].txt.core}}
          ELSE {})

\* where invoke first runs _send_message: "direct" on the caller's idle
\* loop (line 428), "thread" in _run_in_thread when the loop is running
\* (line 485), "noloop" when get_event_loop raises RuntimeError and the
\* handler runs it on a new loop (line 460)
Paths == {"direct", "thread", "noloop"}

\* ------------------------------------------------------------------- state
VARIABLES
    inst,   \* the ChatGPTWebLLM instance: _initialized, playwright, context, page, headless
    br,     \* the browser side: the pipe to the driver process, the page handle
    dom,    \* the conversation page
    t,      \* per caller: the position in invoke / _send_message / _initialize and the locals
    fm,     \* a call of _format_messages: the message list and the prompt made of it
    gn,     \* a call of generate_node (graph.py): its llm, its context, its answer
    srv     \* the module globals of server.py: vectorstore, graph, current_settings

vars == <<inst, br, dom, t, fm, gn, srv>>

\* None, for the handles playwright / context / page
None == 0

\* a live handle
Handle == 1

\* textarea = None
NoLocator == [sel |-> 0, which |-> "none"]

\* a text read from the page: the element it was read from, and the text
NoText == [el |-> 0, txt |-> Text(0, FALSE)]

\* no call of _format_messages is looked at
NoFormat == [messages |-> << >>, prompt |-> << >>, done |-> FALSE]

Idle == [pc |-> "idle", path |-> "none", site |-> "none", ret |-> "none",
         prompt |-> 0, waited |-> 0, polls |-> 0, lsel |-> 1,
         \* polls of a busy indicator completed since line 185 was reached
         lpolls |-> 0,
         initial_message_count |-> 0, response_found |-> FALSE,
         textarea |-> NoLocator, sel |-> 1,
         \* the editable elements the location of the input saw
         inputs |-> << >>,
         text |-> NoText, exc |-> NoExc, actionable |-> FALSE, sent |-> FALSE,
         \* history of the current _send_message: the page handle was found
         \* stale, the try block was entered
         stale |-> FALSE, tried |-> FALSE,
         \* the guard of _initialize found the session open and returned
         kept |-> FALSE,
         \* the last run of _initialize by this caller raised
         initFailed |-> FALSE,
         \* history of the current invoke call
         calls |-> 0, sends |-> 0, builds |-> 0, launches |-> 0,
         sentAt |-> 0, exhausted |-> FALSE,
         \* the text returned is that of the page-wide query (line 386)
         paged |-> FALSE,
         \* the turn the poll loop accepted, as it was at the busy check
         accepted |-> NoText,
         \* how the last invoke call ended (kept until the checks on entry
         \* of the next _send_message are done)
         out |-> [kind |-> "none", txt |-> Text(0, FALSE), el |-> 0, exc |-> NoExc]]

\* ChatGPTWebLLM.__init__: nothing is started; headless is the caller's choice.
\* The environment of a behaviour is fixed when it starts (br.env):
\*   "session"  every fault, every bridging path, answers that arrive
\*              complete, MaxCalls calls;
\*   "page"     every markup and every course of a streaming answer,
\*              MaxCalls calls on the caller's own loop, launch and timeout
\*              faults;
\*   "calm"     as "page", and no awaited operation fails;
\*   "shared"   two callers on one instance, one call each on the caller's
\*              own loop; launch and timeout faults; a human asked to log
\*              in does so at once and an answer advances at every pause.
\* Faults: the exceptions awaited operations may raise while the pipe to the
\* driver process is intact.
Faults(b) ==
    CASE b.env = "session" -> AllFaults
      [] b.env = "page" -> {PwTimeout, PwLockError}
      [] b.env = "calm" -> {}
      [] OTHER -> {PwTimeout, PwLockError}

\* whether the human who is asked to log in may keep the program waiting
SlowLogin(b) == b.env # "shared"

\* how the callers reach invoke (see FirstSite)
PathsOf(b) == IF b.env = "session" THEN Paths ELSE {"direct"}

\* the lengths of the prompts the callers send
PromptsOf(b) == IF b.env \in {"page", "calm"} THEN PromptLens ELSE {30}

\* the number of invoke calls each caller makes
CallsOf(b) == IF b.env = "shared" THEN 1 ELSE MaxCalls

\* the timeout argument of the constructor, in milliseconds: the default
\* (60000), and a shorter one where no awaited operation fails
TimeoutsOf(env) == IF env = "calm" THEN {30000, 60000} ELSE {60000}

InitWith(env, layouts, lens, eager) ==
    /\ inst \in {[initialized |-> FALSE, playwright |-> None, context |-> None,
                  page |-> None, headless |-> h, timeout |-> tm] :
                    h \in BOOLEAN, tm \in TimeoutsOf(env)}
    /\ br \in {[pipe |-> "none", page |-> "none", auth |-> a, env |-> env,
                orphans |-> 0] :
                 a \in BOOLEAN}
    /\ dom \in {BlankDom(l, lens, eager) : l \in layouts}
    /\ t = [c \in Callers |-> Idle]
    /\ fm = NoFormat
    /\ gn = [pc |-> "none"]
    /\ srv = [pc |-> "none"]

\* ------------------------------------------------------------- scheduling
\* where a caller is seen to be overtaken by another: between calls, on
\* entry of _initialize (between the test of line 159 and the guard of line
\* 28), in the pause after the page load (asyncio.sleep(3), line 99) and in
\* the pause after the submission (page.wait_for_timeout(3000), line 298)
Pauses == {"idle", "i28", "i106", "s298"}

\* Caller c is at pc and it is its turn.  Callers on different threads run
\* side by side; of their interleavings the model keeps those that switch
\* at a pause.  With one caller it is always its turn.
At(c, pc) ==
    /\ t[c].pc = pc
    /\ \A o \in Callers \ {c} : t[o].pc \in Pauses

\* ------------------------------------------------------ awaited operations
\* How an awaited browser operation ends: NoExc, or the exception it raises.
\* Once the pipe to the driver process is broken every operation on it fails.
OpOutcomes(b) ==
    IF b.pipe = "broken" THEN PipeFaults
    ELSE {NoExc} \cup (Faults(b) \cap (OpFaults \cup PipeFaults))

PipeAfter(b, e) == IF e \in PipeFaults THEN "broken" ELSE b.pipe

\* ---------------------------------------------------- _send_message: handlers
\* The except clauses that close the try block of _send_message: every
\* exception raised inside it leaves as a ValueError.
Convert(e) ==
    IF e.cls = "PlaywrightTimeoutError" THEN ValueErr("ResponseTimeout", FALSE)
    ELSE IF IsOSError(e)
         THEN IF Errno(e) = EPIPE THEN ValueErr("ConnectionLost", FALSE)
              ELSE ValueErr("ConnectionError", FALSE)
    ELSE IF HasPipeText(e) THEN ValueErr("ConnectionLost", FALSE)
    ELSE ValueErr(IF e.cls = "ValueError" THEN e.msg ELSE "ErrorCommunicating", FALSE)

\* every handler resetting the connection
ResetsAlways(e) == TRUE

\* whether the handler that takes e resets the connection
ResetsSession(e) ==
    /\ e.cls # "PlaywrightTimeoutError"
    /\ IF IsOSError(e) THEN Errno(e) = EPIPE ELSE HasPipeText(e)

\* the reset without its first assignment: context and page cleared, the
\* flag left as it was
DiscardedKeepsFlag(i) == [i EXCEPT !.context = None, !.page = None]

\* self._initialized = False; self.context = None; self.page = None
Discarded(i) == [i EXCEPT !.initialized = FALSE, !.context = None, !.page = None]

\* _send_message is left, with text or with exception e: its locals are gone
Leave(tc, txt, e) ==
    [tc EXCEPT !.pc = "s_exit", !.exc = e, !.text = txt, !.ret = "none",
               !.waited = 0, !.polls = 0, !.lsel = 1, !.sel = 1,
               !.textarea = NoLocator, !.actionable = FALSE, !.launches = 0,
               !.inputs = << >>]

\* an exception raised inside the try block of _send_message, by caller c
RaiseInTry(c, e) ==
    /\ inst' = IF ResetsSession(e) THEN Discarded(inst) ELSE inst
    /\ t' = [t EXCEPT ![c] = Leave(@, NoText, Convert(e))]

\* an exception that leaves _send_message as it is (raised before the try)
RaiseRaw(c, e) ==
    /\ inst' = inst
    /\ t' = [t EXCEPT ![c] = Leave(@, NoText, e)]

\* ------------------------------------------------------------- _initialize
\* where _initialize returns to: the statement after the call
RetTarget(ret) ==
    CASE ret = "s160" -> "s163"
      [] ret = "s165" -> "s175"
      [] ret = "s171" -> "s175"
      [] ret = "s180" -> "s181"

\* _initialize returns to its call site
InitReturn(tc) ==
    [tc EXCEPT !.pc = RetTarget(tc.ret), !.ret = "none", !.waited = 0, !.launches = 0,
               !.initFailed = FALSE]

\* an exception raised by _initialize: the call at line 160 stands before
\* the try block of _send_message, the others inside it
InitRaise(c, e) ==
    IF t[c].ret = "s160"
    THEN /\ inst' = inst
         /\ t' = [t EXCEPT ![c] = [Leave(@, NoText, e) EXCEPT !.initFailed = TRUE]]
    ELSE /\ inst' = IF ResetsSession(e) THEN Discarded(inst) ELSE inst
         /\ t' = [t EXCEPT ![c] = [Leave(@, NoText, Convert(e)) EXCEPT !.initFailed = TRUE]]

\* lines 28-31: the guard, then async_playwright().start(), which spawns a
\* new driver process with its own pipe.  self.playwright is overwritten:
\* a driver that was running (pipe "ok") is no longer referenced and nothing
\* stops it (br.orphans).
Orphaned(b) ==
    IF b.pipe = "ok" /\ b.orphans < MaxOrphans THEN b.orphans + 1 ELSE b.orphans

StartOutcomes(b) ==
    {NoExc} \cup (Faults(b) \cap {OtherOSErr, RuntimeErr, BrokenPipeErr})

\* _initialize without lines 28-29: it builds whatever the state
InitializeUnguarded(c) ==
    /\ At(c, "i28")
    /\ \E e \in StartOutcomes(br) :
         IF e = NoExc
         THEN /\ inst' = [inst EXCEPT !.playwright = Handle]
              /\ br' = [br EXCEPT !.pipe = "ok", !.orphans = Orphaned(br)]
              /\ t' = [t EXCEPT ![c].pc = "i33"]
              /\ UNCHANGED dom
         ELSE /\ InitRaise(c, e)
              /\ UNCHANGED <<br, dom>>

InitializeGuard(c) ==
    /\ At(c, "i28")
    /\ IF inst.initialized
       THEN /\ t' = [t EXCEPT ![c] = [InitReturn(@) EXCEPT !.kept = TRUE]]
            /\ UNCHANGED <<inst, br, dom>>
       ELSE \E e \in StartOutcomes(br) :
              IF e = NoExc
              THEN /\ inst' = [inst EXCEPT !.playwright = Handle]
                   /\ br' = [br EXCEPT !.pipe = "ok", !.orphans = Orphaned(br)]
                   /\ t' = [t EXCEPT ![c].pc = "i33"]
                   /\ UNCHANGED dom
              ELSE /\ InitRaise(c, e)
                   /\ UNCHANGED <<br, dom>>

\* lines 33-58: the profile directory, the stale lock, and the kill of every
\* process bound to the profile directory: a browser still running on it dies
InitializeCleanup(c) ==
    /\ At(c, "i33")
    /\ \E e \in {NoExc} \cup (Faults(br) \cap {OtherOSErr}) :
         IF e = NoExc
         THEN /\ br' = [br EXCEPT !.page = IF @ = "none" THEN "none" ELSE "closed"]
              /\ t' = [t EXCEPT ![c].pc = "i60"]
              /\ UNCHANGED inst
         ELSE /\ InitRaise(c, e)
              /\ UNCHANGED br
    /\ UNCHANGED dom

\* lines 60-90: launch_persistent_context; a launch that fails on the profile
\* lock is followed by one forced cleanup and one relaunch
LaunchOutcomes(b) ==
    OpOutcomes(b) \cup (IF b.pipe = "ok" THEN Faults(b) \cap {PwLockError} ELSE {})

Launched(c) ==
    /\ inst' = [inst EXCEPT !.context = Handle]
    /\ t' = [t EXCEPT ![c].pc = "i92", ![c].launches = @ + 1]

InitializeLaunch(c) ==
    /\ At(c, "i60")
    /\ \E e \in LaunchOutcomes(br) :
         /\ br' = [br EXCEPT !.pipe = PipeAfter(br, e)]
         /\ IF e = NoExc THEN Launched(c)
            ELSE IF e = PwLockError
                 THEN /\ t' = [t EXCEPT ![c].pc = "i71", ![c].launches = @ + 1]
                      /\ UNCHANGED inst
            ELSE /\ InitRaise(c, e)
    /\ UNCHANGED dom

\* lines 71-76: the forced cleanup after a launch that failed on the profile
\* lock: remove the lock file, sleep, pkill, sleep.  Unlike lines 38-41 the
\* removal is not guarded: what it raises is taken by line 85, as the
\* failure of the relaunch would be
InitializeForcedCleanup(c) ==
    /\ At(c, "i71")
    /\ \E e \in {NoExc} \cup (Faults(br) \cap {OtherOSErr}) :
         IF e = NoExc
         THEN /\ t' = [t EXCEPT ![c].pc = "i77"]
              /\ UNCHANGED inst
         ELSE InitRaise(c, ValueErr("FailedStart", FALSE))
    /\ UNCHANGED <<br, dom>>

\* lines 77-88: the relaunch; whatever it raises becomes the "Failed to
\* start browser" ValueError
InitializeRelaunch(c) ==
    /\ At(c, "i77")
    /\ \E e \in LaunchOutcomes(br) :
         /\ br' = [br EXCEPT !.pipe = PipeAfter(br, e)]
         /\ IF e = NoExc THEN Launched(c)
            ELSE InitRaise(c, ValueErr("FailedStart", e.pipeText))
    /\ UNCHANGED dom

\* lines 92-95, the session marked ready as soon as it has a page
InitializePageMarksReady(c) ==
    /\ At(c, "i92")
    /\ \E e \in OpOutcomes(br) :
         /\ br' = [br EXCEPT !.pipe = PipeAfter(br, e),
                             !.page = IF e = NoExc THEN "live" ELSE @]
         /\ IF e = NoExc
            THEN /\ inst' = [inst EXCEPT !.page = Handle, !.initialized = TRUE]
                 /\ t' = [t EXCEPT ![c].pc = "i98"]
            ELSE InitRaise(c, e)
    /\ UNCHANGED dom

\* lines 92-95: the page the profile opened with, or a new one
InitializePage(c) ==
    /\ At(c, "i92")
    /\ \E e \in OpOutcomes(br) :
         /\ br' = [br EXCEPT !.pipe = PipeAfter(br, e),
                             !.page = IF e = NoExc THEN "live" ELSE @]
         /\ IF e = NoExc
            THEN /\ inst' = [inst EXCEPT !.page = Handle]
                 /\ t' = [t EXCEPT ![c].pc = "i98"]
            ELSE InitRaise(c, e)
    /\ UNCHANGED dom

\* an exception raised inside the try block of _initialize (lines 97-155):
\* only a Playwright timeout is converted
InitConvert(e) ==
    IF e.cls = "PlaywrightTimeoutError" THEN ValueErr("LoadFailed", FALSE) ELSE e

\* line 98: page.goto; a fresh conversation is shown
InitializeGoto(c) ==
    /\ At(c, "i98")
    /\ \E e \in OpOutcomes(br) :
         /\ br' = [br EXCEPT !.pipe = PipeAfter(br, e)]
         /\ IF e = NoExc
            THEN /\ dom' = Fresh(dom)
                 /\ t' = [t EXCEPT ![c].pc = "i106"]
                 /\ UNCHANGED inst
            ELSE /\ InitRaise(c, InitConvert(e))
                 /\ UNCHANGED dom

\* lines 100-153 without the test of self.headless: a login indicator
\* always leads to the login wait
InitializeLoginAlwaysWaits(c) ==
    /\ At(c, "i106")
    /\ \E e \in OpOutcomes(br) :
         /\ br' = [br EXCEPT !.pipe = PipeAfter(br, e)]
         /\ IF e # NoExc THEN InitRaise(c, InitConvert(e))
            ELSE IF ~br.auth
                 THEN /\ t' = [t EXCEPT ![c].pc = "i127", ![c].waited = 0]
                      /\ UNCHANGED inst
                 ELSE /\ inst' = [inst EXCEPT !.initialized = TRUE]
                      /\ t' = [t EXCEPT ![c] = InitReturn(@)]
    /\ UNCHANGED dom

\* lines 100-153: the login indicators.  A login indicator is visible exactly
\* when the profile holds no authenticated session.
InitializeLogin(c) ==
    /\ At(c, "i106")
    /\ \E e \in OpOutcomes(br) :
         /\ br' = [br EXCEPT !.pipe = PipeAfter(br, e)]
         /\ IF e # NoExc THEN InitRaise(c, InitConvert(e))
            ELSE LET needs_login == ~br.auth IN
                 IF needs_login
                 THEN IF ~inst.headless
                      THEN /\ t' = [t EXCEPT ![c].pc = "i127", ![c].waited = 0]
                           /\ UNCHANGED inst
                      ELSE InitRaise(c, ValueErr("LoginRequired", FALSE))
                 ELSE /\ inst' = [inst EXCEPT !.initialized = TRUE]
                      /\ t' = [t EXCEPT ![c] = InitReturn(@)]
    /\ UNCHANGED dom

\* lines 125-143 without the else clause of the while loop: when the bound
\* is used up, the session is marked initialized
InitializeLoginWaitNoElse(c) ==
    /\ At(c, "i127")
    /\ IF t[c].waited < login_max_wait
       THEN \E e \in OpOutcomes(br),
               a \in (IF SlowLogin(br) THEN {br.auth, TRUE} ELSE {TRUE}),
               visible \in (IF SlowLogin(br) THEN BOOLEAN ELSE {TRUE}) :
              /\ br' = [br EXCEPT !.pipe = PipeAfter(br, e), !.auth = a]
              /\ IF e # NoExc THEN InitRaise(c, InitConvert(e))
                 ELSE IF a /\ visible
                      THEN /\ inst' = [inst EXCEPT !.initialized = TRUE]
                           /\ t' = [t EXCEPT ![c] = InitReturn(@)]
                      ELSE /\ t' = [t EXCEPT ![c].waited = @ + login_step]
                           /\ UNCHANGED inst
       ELSE /\ inst' = [inst EXCEPT !.initialized = TRUE]
            /\ t' = [t EXCEPT ![c] = InitReturn(@)]
            /\ UNCHANGED br
    /\ UNCHANGED dom

\* lines 125-143: the login wait.  One iteration: sleep, count the message
\* inputs, wait for the first to be visible.  The human may log in meanwhile.
InitializeLoginWait(c) ==
    /\ At(c, "i127")
    /\ IF t[c].waited < login_max_wait
       THEN \E e \in OpOutcomes(br),
               a \in (IF SlowLogin(br) THEN {br.auth, TRUE} ELSE {TRUE}),
               visible \in (IF SlowLogin(br) THEN BOOLEAN ELSE {TRUE}) :
              /\ br' = [br EXCEPT !.pipe = PipeAfter(br, e), !.auth = a]
              /\ IF e # NoExc THEN InitRaise(c, InitConvert(e))
                 ELSE IF a /\ visible
                      THEN /\ inst' = [inst EXCEPT !.initialized = TRUE]
                           /\ t' = [t EXCEPT ![c] = InitReturn(@)]
                      ELSE /\ t' = [t EXCEPT ![c].waited = @ + login_step]
                           /\ UNCHANGED inst
       ELSE /\ InitRaise(c, ValueErr("LoginTimeout", FALSE))
            /\ UNCHANGED br
    /\ UNCHANGED dom

\* ----------------------------------------------------------- _send_message
\* How an awaited operation on the page ends: a closed page fails it.
PageOutcomes(b) ==
    IF b.pipe = "broken" THEN PipeFaults
    ELSE IF b.page # "live" THEN {PwError}
    ELSE OpOutcomes(b)

\* a call of _send_message(prompt) made at `site` of invoke / _run_in_thread
StartSend(tc, site) ==
    [tc EXCEPT !.pc = "s159", !.site = site, !.ret = "none", !.sends = @ + 1,
               !.builds = 0, !.stale = FALSE, !.tried = FALSE, !.kept = FALSE,
               !.waited = 0, !.polls = 0, !.lsel = 1, !.lpolls = 0,
               !.initial_message_count = 0,
               !.response_found = FALSE, !.textarea = NoLocator, !.actionable = FALSE,
               !.sel = 1, !.exc = NoExc, !.text = NoText, !.exhausted = FALSE,
               !.sentAt = 0, !.sent = FALSE, !.accepted = NoText, !.paged = FALSE]

\* lines 159-160: build the session if there is none (before the try block)
SendEnsure(c) ==
    /\ At(c, "s159")
    /\ t' = IF ~inst.initialized
            THEN [t EXCEPT ![c].pc = "i28", ![c].ret = "s160", ![c].builds = @ + 1]
            ELSE [t EXCEPT ![c].pc = "s163"]
    /\ UNCHANGED <<inst, br, dom>>

\* lines 163-171: a stale page handle: rebuild
SendStaleCheck(c) ==
    /\ At(c, "s163")
    /\ IF inst.page = None \/ br.page = "closed"
       THEN /\ inst' = [inst EXCEPT !.initialized = FALSE]
            /\ t' = [t EXCEPT ![c].pc = "i28", ![c].ret = "s165", ![c].stale = TRUE,
                              ![c].tried = TRUE, ![c].builds = @ + 1,
                              ![c].out = Idle.out]
       ELSE IF br.page = "unreachable"
       THEN /\ inst' = [inst EXCEPT !.initialized = FALSE]
            /\ t' = [t EXCEPT ![c].pc = "i28", ![c].ret = "s171", ![c].stale = TRUE,
                              ![c].tried = TRUE, ![c].builds = @ + 1,
                              ![c].out = Idle.out]
       ELSE /\ t' = [t EXCEPT ![c].pc = "s175", ![c].tried = TRUE,
                              ![c].out = Idle.out]
            /\ UNCHANGED inst
    /\ UNCHANGED <<br, dom>>

\* lines 174-182: navigate to the site if the page is elsewhere; when that
\* fails, rebuild and navigate again
SendNavigate(c) ==
    /\ At(c, "s175")
    /\ \E onSite \in BOOLEAN :
         IF onSite
         THEN /\ t' = [t EXCEPT ![c].pc = "s184"]
              /\ UNCHANGED <<inst, br, dom>>
         ELSE \E e \in PageOutcomes(br) :
                /\ br' = [br EXCEPT !.pipe = PipeAfter(br, e)]
                /\ IF e = NoExc
                   THEN /\ dom' = Fresh(dom)
                        /\ t' = [t EXCEPT ![c].pc = "s184"]
                        /\ UNCHANGED inst
                   ELSE /\ inst' = [inst EXCEPT !.initialized = FALSE]
                        /\ t' = [t EXCEPT ![c].pc = "i28", ![c].ret = "s180",
                                          ![c].builds = @ + 1]
                        /\ UNCHANGED dom

\* lines 181-182: the navigation after the rebuild of line 180
SendNavigateAgain(c) ==
    /\ At(c, "s181")
    /\ \E e \in PageOutcomes(br) :
         /\ br' = [br EXCEPT !.pipe = PipeAfter(br, e)]
         /\ IF e = NoExc
            THEN /\ dom' = Fresh(dom)
                 /\ t' = [t EXCEPT ![c].pc = "s184"]
                 /\ UNCHANGED inst
            ELSE /\ RaiseInTry(c, e)
                 /\ UNCHANGED dom

\* line 184: page.wait_for_timeout(2000)
SendPause(c) ==
    /\ At(c, "s184")
    /\ \E e \in PageOutcomes(br) :
         /\ br' = [br EXCEPT !.pipe = PipeAfter(br, e)]
         /\ IF e = NoExc
            THEN /\ dom' \in Evolve(dom)
                 /\ t' = [t EXCEPT ![c].pc = "s185", ![c].lsel = 1, ![c].polls = 0]
                 /\ UNCHANGED inst
            ELSE /\ RaiseInTry(c, e)
                 /\ UNCHANGED dom

\* the loading selector after lsel, or the end of the for loop (line 199)
NextLoading(tc) ==
    IF tc.lsel < 3 THEN [tc EXCEPT !.pc = "s185", !.lsel = @ + 1, !.polls = 0]
    ELSE [tc EXCEPT !.pc = "s199", !.lsel = 1, !.polls = 0, !.lpolls = 0]

\* lines 186-189: query one loading selector; an exception is passed over
SendLoadingQuery(c) ==
    /\ At(c, "s185")
    /\ \E e \in PageOutcomes(br) :
         /\ br' = [br EXCEPT !.pipe = PipeAfter(br, e)]
         /\ t' = [t EXCEPT ![c] =
                    IF e = NoExc /\ t[c].lsel \in dom.busy
                    THEN [@ EXCEPT !.pc = "s190", !.polls = 0]
                    ELSE NextLoading(@)]
    /\ UNCHANGED <<inst, dom>>

\* lines 190-195: poll the indicator found, at most 15 times, then leave the
\* for loop; an exception moves on to the next loading selector
SendLoadingPoll(c) ==
    /\ At(c, "s190")
    /\ \E e \in PageOutcomes(br), d \in Evolve(dom) :
         /\ br' = [br EXCEPT !.pipe = PipeAfter(br, e)]
         /\ IF e = NoExc
            THEN /\ dom' = d
                 /\ t' = [t EXCEPT ![c] =
                            IF t[c].lsel \notin d.busy \/ t[c].polls + 1 = load_polls
                            THEN [@ EXCEPT !.pc = "s199", !.lsel = 1, !.polls = 0,
                                           !.lpolls = 0]
                            ELSE [@ EXCEPT !.polls = @ + 1, !.lpolls = @ + 1]]
            ELSE /\ dom' = dom
                 /\ t' = [t EXCEPT ![c] = NextLoading(@)]
    /\ UNCHANGED inst

\* lines 199-205: sleep, scroll to the bottom (an exception is passed over)
SendScroll(c) ==
    /\ At(c, "s199")
    /\ \E e \in PageOutcomes(br) :
         br' = [br EXCEPT !.pipe = PipeAfter(br, e)]
    /\ dom' \in Evolve(dom)
    /\ t' = [t EXCEPT ![c].pc = "s207"]
    /\ UNCHANGED inst

\* ------------------------------------------------------ locating the input
\* The editable elements of the page, in document order.  kind: "ce" a
\* div[contenteditable="true"], "ceRole" one that also has role="textbox",
\* "taMsg" a textarea whose placeholder contains "Message", "taPrompt" a
\* textarea whose id contains "prompt", "ta" another textarea, "in" an
\* input[type="text"].  vis: rendered with a non-zero size.
MaxInputs == 2

InputEls ==
    {[kind |-> k, vis |-> v, enabled |-> TRUE] :
        <<k, v>> \in {"ce", "ceRole", "taMsg", "taPrompt", "ta", "in"} \X BOOLEAN}
    \cup {[kind |-> k, vis |-> TRUE, enabled |-> FALSE] : k \in {"taMsg", "taPrompt", "ta"}}

InputDoms == UNION {[1 .. n -> InputEls] : n \in 0 .. MaxInputs}

\* textarea_selectors, in list order (1..5), and the selectors the last-resort
\* scan hands to page.locator (6..8)
textarea_selectors == 1 .. 5

InputMatches(k, el) ==
    CASE k = 1 -> el.kind \in {"ce", "ceRole"}
      [] k = 2 -> el.kind = "ceRole"
      [] k = 3 -> el.kind = "taMsg"
      [] k = 4 -> el.kind = "taPrompt"
      [] k = 5 -> el.kind \in {"taMsg", "taPrompt", "ta"}
      [] k = 6 -> el.kind \in {"ce", "ceRole"}
      [] k = 7 -> el.kind \in {"taMsg", "taPrompt", "ta"}
      [] k = 8 -> el.kind = "in"
      [] OTHER -> FALSE

InputQuery(inputs, k) ==
    SelectSeq([i \in 1 .. Len(inputs) |-> i], LAMBDA i : InputMatches(k, inputs[i]))

\* a locator: the selector and whether .first or .last is taken
Locator(k, which) == [sel |-> k, which |-> which]

\* the element a locator resolves to (0: none)
Resolve(inputs, loc) ==
    LET q == InputQuery(inputs, loc.sel) IN
    IF q = << >> THEN 0
    ELSE IF loc.which = "first" THEN q[1] ELSE q[Len(q)]

\* lines 215-227, from selector k on, with `cur` the value of textarea: the
\* value of textarea when the for loop ends.  The locator is assigned before
\* it is counted; an exception (wait_for on an invisible element, a broken
\* pipe) sets textarea to None and moves on; only a visible element that is
\* enabled, or any visible match of a contenteditable selector, breaks.
\* the for loop without wait_for(state='visible') and is_visible(): the
\* first selector with a match breaks
RECURSIVE LocateFromAnyMatch(_, _, _, _)
LocateFromAnyMatch(inputs, k, cur, broken) ==
    IF k > 5 THEN cur
    ELSE IF broken THEN LocateFromAnyMatch(inputs, k + 1, NoLocator, broken)
    ELSE LET loc == Locator(k, "first")
             m == Resolve(inputs, loc)
         IN IF m = 0 THEN LocateFromAnyMatch(inputs, k + 1, loc, broken)
            ELSE loc

RECURSIVE LocateFrom(_, _, _, _)
LocateFrom(inputs, k, cur, broken) ==
    IF k > 5 THEN cur
    ELSE IF broken THEN LocateFrom(inputs, k + 1, NoLocator, broken)
    ELSE LET loc == Locator(k, "first")
             m == Resolve(inputs, loc)
         IN IF m = 0 THEN LocateFrom(inputs, k + 1, loc, broken)
            ELSE IF ~inputs[m].vis THEN LocateFrom(inputs, k + 1, NoLocator, broken)
            ELSE IF inputs[m].enabled \/ k \in {1, 2} THEN loc
            ELSE LocateFrom(inputs, k + 1, loc, broken)

\* the selector the scan derives from an element (lines 237-242)
ScanSelector(el) ==
    CASE el.kind \in {"ce", "ceRole"} -> 6
      [] el.kind \in {"taMsg", "taPrompt", "ta"} -> 7
      [] OTHER -> 8

\* lines 229-249: the last-resort scan: the last five editable elements, the
\* latest first; the first found with a rendered size decides the selector,
\* and page.locator(selector).last is taken
RECURSIVE ScanFrom(_, _, _)
ScanFrom(inputs, i, low) ==
    IF i < low \/ i < 1 THEN NoLocator
    ELSE IF inputs[i].vis THEN Locator(ScanSelector(inputs[i]), "last")
    ELSE ScanFrom(inputs, i - 1, low)

Scan(inputs, broken) ==
    IF broken THEN NoLocator ELSE ScanFrom(inputs, Len(inputs), Len(inputs) - 4)

\* lines 215-252: the value of textarea after the strategies and the scan
Locate(inputs, broken) ==
    LET found == LocateFrom(inputs, 1, NoLocator, broken) IN
    IF found = NoLocator THEN Scan(inputs, broken) ELSE found

\* whether a click on the locator finds an element that is visible and enabled
Actionable(inputs, loc) ==
    LET m == Resolve(inputs, loc) IN
    m # 0 /\ inputs[m].vis /\ inputs[m].enabled

\* lines 207-252: locate the input; None raises the input-not-found error
SendLocate(c) ==
    /\ At(c, "s207")
    /\ \E inputs \in InputDoms :
         LET ta == Locate(inputs, br.pipe = "broken") IN
         IF ta = NoLocator
         THEN RaiseInTry(c, ValueErr("InputNotFound", FALSE))
         ELSE /\ t' = [t EXCEPT ![c].pc = "s254", ![c].textarea = ta,
                                ![c].inputs = inputs,
                                ![c].actionable = Actionable(inputs, ta)]
              /\ UNCHANGED inst
    /\ UNCHANGED <<br, dom>>

\* lines 254-273: click the input and set its content.  The click waits for
\* an element that is visible and enabled; without one it times out.
SendType(c) ==
    /\ At(c, "s254")
    /\ \E e \in (IF t[c].actionable \/ br.pipe = "broken"
                 THEN PageOutcomes(br) ELSE {PwTimeout}) :
         /\ br' = [br EXCEPT !.pipe = PipeAfter(br, e)]
         /\ IF e = NoExc
            THEN /\ t' = [t EXCEPT ![c].pc = "s275", ![c].inputs = << >>]
                 /\ UNCHANGED inst
            ELSE RaiseInTry(c, e)
    /\ UNCHANGED dom

\* ------------------------------------------------- submitting and polling
\* the text of element i of the page
TextOf(d, i) == [el |-> i, txt |-> d.els[i].txt]

\* elements[-1] of a selector's matches
LastOf(d, s) == LET q == Query(d, s) IN q[Len(q)]

\* text and text.strip() and len(text.strip()) > 10
LongEnough(txt) == StrLen(Strip(txt)) > min_len

\* text and text.strip()
NonEmpty(txt) == StrLen(Strip(txt)) > 0

\* lines 322-325 / 348-351: the selector matches more elements than the
\* baseline and the text of the last of them passes the threshold
IsCandidate(d, s, initial) ==
    /\ Len(Query(d, s)) > initial
    /\ LongEnough(d.els[LastOf(d, s)].txt)

\* lines 275-281: the baseline: the number of assistant turns; 0 when the
\* evaluation raises
SendBaseline(c) ==
    /\ At(c, "s275")
    /\ \E e \in PageOutcomes(br) :
         /\ br' = [br EXCEPT !.pipe = PipeAfter(br, e)]
         /\ t' = [t EXCEPT ![c].pc = "s283",
                           ![c].initial_message_count =
                               IF e = NoExc THEN Len(Query(dom, 1)) ELSE 0]
    /\ UNCHANGED <<inst, dom>>

\* the page after the send gesture: the user's message is appended and, if
\* no response is streaming, one is queued
Submitted(d, prompt) ==
    [d EXCEPT !.els = Append(d.els, [role |-> "user", txt |-> Text(prompt, FALSE)]),
              !.gen = IF d.gen = "idle" THEN "queued" ELSE d.gen]

\* the send gesture, and the count of assistant turns taken after it
SendSubmitThenCount(c) ==
    /\ At(c, "s283")
    /\ \E e \in PageOutcomes(br), d \in Evolve(Submitted(dom, t[c].prompt)) :
         /\ br' = [br EXCEPT !.pipe = PipeAfter(br, e)]
         /\ IF e = NoExc
            THEN /\ dom' = d
                 /\ t' = [t EXCEPT ![c].pc = "s298", ![c].sent = TRUE,
                                   ![c].sentAt = Len(dom.els),
                                   ![c].initial_message_count = Len(Query(d, 1)),
                                   ![c].textarea = NoLocator, ![c].actionable = FALSE]
                 /\ UNCHANGED inst
            ELSE /\ RaiseInTry(c, ValueErr("FailedSend", FALSE))
                 /\ UNCHANGED dom

\* lines 283-296: press Enter; if that raises, click the send control or
\* press Enter again; if that raises too, "Failed to send message"
SendSubmit(c) ==
    /\ At(c, "s283")
    /\ \E e1 \in PageOutcomes(br) :
         LET b1 == [br EXCEPT !.pipe = PipeAfter(br, e1)] IN
         IF e1 = NoExc
         THEN /\ br' = b1
              /\ dom' \in Evolve(Submitted(dom, t[c].prompt))
              /\ t' = [t EXCEPT ![c].pc = "s298", ![c].sent = TRUE,
                                ![c].sentAt = Len(dom.els),
                                ![c].textarea = NoLocator, ![c].actionable = FALSE]
              /\ UNCHANGED inst
         ELSE \E e2 \in PageOutcomes(b1) :
                /\ br' = [b1 EXCEPT !.pipe = PipeAfter(b1, e2)]
                /\ IF e2 = NoExc
                   THEN /\ dom' \in Evolve(Submitted(dom, t[c].prompt))
                        /\ t' = [t EXCEPT ![c].pc = "s298", ![c].sent = TRUE,
                                          ![c].sentAt = Len(dom.els),
                                          ![c].textarea = NoLocator,
                                          ![c].actionable = FALSE]
                        /\ UNCHANGED inst
                   ELSE /\ RaiseInTry(c, ValueErr("FailedSend", FALSE))
                        /\ UNCHANGED dom

\* line 298: page.wait_for_timeout(3000); lines 309-311
SendAwaitResponse(c) ==
    /\ At(c, "s298")
    /\ \E e \in PageOutcomes(br) :
         /\ br' = [br EXCEPT !.pipe = PipeAfter(br, e)]
         /\ IF e = NoExc
            THEN /\ dom' \in Evolve(dom)
                 /\ t' = [t EXCEPT ![c].pc = "s313", ![c].waited = 0,
                                   ![c].response_found = FALSE]
                 /\ UNCHANGED inst
            ELSE /\ RaiseInTry(c, e)
                 /\ UNCHANGED dom

\* lines 313-317: the loop test, then the count of assistant turns (which
\* the loop does not use)
PollHead(c) ==
    /\ At(c, "s313")
    /\ IF t[c].waited < max_wait
       THEN \E e \in PageOutcomes(br) :
              /\ br' = [br EXCEPT !.pipe = PipeAfter(br, e)]
              /\ IF e = NoExc
                 THEN /\ t' = [t EXCEPT ![c].pc = "s319", ![c].sel = 1]
                      /\ UNCHANGED inst
                 ELSE RaiseInTry(c, e)
       ELSE /\ t' = [t EXCEPT ![c].pc = "s344", ![c].sel = 1, ![c].exhausted = TRUE]
            /\ UNCHANGED <<inst, br>>
    /\ UNCHANGED dom

\* the response selectors from s on that pass the candidate test
CandidatesFrom(d, s, initial) ==
    {k \in response_selectors : k >= s /\ IsCandidate(d, k, initial)}

Min(S) == CHOOSE x \in S : \A y \in S : x <= y

\* The selectors a for loop over response_selectors may stop at, from s on:
\* the first candidate; a later one when the queries of the earlier ones
\* raise (the exception is passed over); 6 stands for the end of the loop.
\* With a broken pipe every query raises.
StopsFrom(d, s, initial, b) ==
    IF b.pipe = "broken" \/ b.page # "live" THEN {6}
    ELSE LET cs == CandidatesFrom(d, s, initial) IN
         IF cs = {} THEN {6}
         ELSE IF Faults(b) # {} THEN cs \cup {6} ELSE {Min(cs)}

\* lines 319-325: scan the response selectors for a candidate
PollScan(c) ==
    /\ At(c, "s319")
    /\ \E k \in StopsFrom(dom, t[c].sel, t[c].initial_message_count, br) :
         t' = [t EXCEPT ![c] =
                 IF k = 6 THEN [@ EXCEPT !.pc = "s341", !.sel = 1, !.text = NoText]
                 ELSE [@ EXCEPT !.pc = "s326", !.sel = k,
                                !.text = TextOf(dom, LastOf(dom, k))]]
    /\ UNCHANGED <<inst, br, dom>>

\* the turn selector k shows last, as it is in d
Shown(d, k) == IF Query(d, k) = << >> THEN NoText ELSE TextOf(d, LastOf(d, k))

\* lines 326-336 without the busy check of lines 327-331
PollSettleUnchecked(c) ==
    /\ At(c, "s326")
    /\ \E e \in PageOutcomes(br), d \in Evolve(dom) :
         /\ br' = [br EXCEPT !.pipe = PipeAfter(br, e)]
         /\ dom' = d
         /\ t' = [t EXCEPT ![c] =
                    IF e = NoExc
                    THEN [@ EXCEPT !.pc = "s344", !.sel = 1, !.response_found = TRUE,
                                   !.accepted = Shown(d, t[c].sel)]
                    ELSE IF t[c].sel < 5
                         THEN [@ EXCEPT !.pc = "s319", !.sel = @ + 1]
                         ELSE [@ EXCEPT !.pc = "s341", !.sel = 1, !.text = NoText]]
    /\ UNCHANGED inst

\* lines 326-336: the settle pause, then the busy check; a busy indicator
\* (or an exception) sends the for loop on to the next selector
PollSettle(c) ==
    /\ At(c, "s326")
    /\ \E e \in PageOutcomes(br), d \in Evolve(dom) :
         /\ br' = [br EXCEPT !.pipe = PipeAfter(br, e)]
         /\ dom' = d
         /\ LET is_loading == d.busy # {} IN
            t' = [t EXCEPT ![c] =
                    IF e = NoExc /\ ~is_loading
                    THEN [@ EXCEPT !.pc = "s344", !.sel = 1, !.response_found = TRUE,
                                   !.accepted = Shown(d, t[c].sel)]
                    ELSE IF t[c].sel < 5
                         THEN [@ EXCEPT !.pc = "s319", !.sel = @ + 1]
                         ELSE [@ EXCEPT !.pc = "s341", !.sel = 1, !.text = NoText]]
    /\ UNCHANGED inst

\* lines 341-342: sleep(2); waited += 2
PollTickUncounted(c) ==
    /\ At(c, "s341")
    /\ dom' \in Evolve(dom)
    /\ t' = [t EXCEPT ![c].pc = "s313"]
    /\ UNCHANGED <<inst, br>>

PollTick(c) ==
    /\ At(c, "s341")
    /\ dom' \in Evolve(dom)
    /\ t' = [t EXCEPT ![c].pc = "s313", ![c].waited = @ + poll_step]
    /\ UNCHANGED <<inst, br>>

\* --------------------------------------------------------- final extraction
\* _send_message returns text
ReturnText(tc, txt) == Leave(tc, txt, NoExc)

\* lines 344-351: the for loop over the response selectors after the poll
\* loop, entered whether or not a response was found: count and first read
FinalScan(c) ==
    /\ At(c, "s344")
    /\ \E k \in StopsFrom(dom, t[c].sel, t[c].initial_message_count, br) :
         t' = [t EXCEPT ![c] =
                 IF k = 6 THEN [@ EXCEPT !.pc = "s359", !.sel = 1, !.text = NoText]
                 ELSE [@ EXCEPT !.pc = "s352", !.sel = k,
                                !.text = TextOf(dom, LastOf(dom, k))]]
    /\ UNCHANGED <<inst, br, dom>>

\* lines 352-357 returning what was read again as it is, untrimmed
FinalRereadUnstripped(c) ==
    /\ At(c, "s352")
    /\ \E e \in PageOutcomes(br), d \in Evolve(dom) :
         /\ br' = [br EXCEPT !.pipe = PipeAfter(br, e)]
         /\ dom' = d
         /\ LET k == t[c].sel
                matched == Query(d, k) # << >>
                response_text == IF matched THEN TextOf(d, LastOf(d, k)) ELSE NoText
            IN t' = [t EXCEPT ![c] =
                       IF e = NoExc /\ matched /\ NonEmpty(response_text.txt)
                       THEN ReturnText(@, response_text)
                       ELSE IF k < 5
                            THEN [@ EXCEPT !.pc = "s344", !.sel = k + 1]
                            ELSE [@ EXCEPT !.pc = "s359", !.sel = 1, !.text = NoText]]
    /\ UNCHANGED inst

\* lines 352-357: pause, read the last match of the locator again (the
\* locator is resolved anew) and return it stripped if it is not empty; an
\* exception moves on to the next selector
FinalReread(c) ==
    /\ At(c, "s352")
    /\ \E e \in PageOutcomes(br), d \in Evolve(dom) :
         /\ br' = [br EXCEPT !.pipe = PipeAfter(br, e)]
         /\ dom' = d
         /\ LET k == t[c].sel
                \* with no match left, inner_text times out
                matched == Query(d, k) # << >>
                response_text == IF matched THEN TextOf(d, LastOf(d, k)) ELSE NoText
            IN t' = [t EXCEPT ![c] =
                       IF e = NoExc /\ matched /\ NonEmpty(response_text.txt)
                       THEN ReturnText(@, [response_text EXCEPT !.txt = Strip(@)])
                       ELSE IF k < 5
                            THEN [@ EXCEPT !.pc = "s344", !.sel = k + 1]
                            ELSE [@ EXCEPT !.pc = "s359", !.sel = 1, !.text = NoText]]
    /\ UNCHANGED inst

\* the page-wide query reading the last assistant turn whatever the baseline
PageTextOfLastTurn(d, initial) ==
    IF Query(d, 1) = << >> THEN NoText ELSE TextOf(d, LastOf(d, 1))

\* lines 359-383: the page-wide query: the first selector with more matches
\* than the baseline; the innerText of its last match, or ''
PageText(d, initial) ==
    LET ss == {k \in response_selectors : Len(Query(d, k)) > initial} IN
    IF ss = {} THEN NoText ELSE TextOf(d, LastOf(d, Min(ss)))

\* lines 359-388: the last-resort extraction, else "No response received"
FinalPageText(c) ==
    /\ At(c, "s359")
    /\ \E e \in PageOutcomes(br) :
         /\ br' = [br EXCEPT !.pipe = PipeAfter(br, e)]
         /\ IF e # NoExc THEN RaiseInTry(c, e)
            ELSE LET page_text == PageText(dom, t[c].initial_message_count) IN
                 IF page_text.el # 0 /\ LongEnough(page_text.txt)
                 THEN /\ t' = [t EXCEPT ![c] =
                                 [ReturnText(@, [page_text EXCEPT !.txt = Strip(@)])
                                    EXCEPT !.paged = TRUE]]
                      /\ UNCHANGED inst
                 ELSE RaiseInTry(c, ValueErr("NoResponse", FALSE))
    /\ UNCHANGED dom

\* ------------------------------------------------- invoke, _run_in_thread
\* invoke ends: it returns text or raises e to its caller
Finish(tc, kind, txt, e) ==
    [tc EXCEPT !.pc = "idle", !.site = "none", !.ret = "none", !.waited = 0,
               !.polls = 0, !.lsel = 1, !.textarea = NoLocator, !.actionable = FALSE,
               !.sel = 1, !.exc = NoExc, !.text = NoText, !.accepted = NoText,
               !.paged = FALSE,
               !.out = [kind |-> kind, txt |-> txt.txt, el |-> txt.el, exc |-> e]]

\* ChatGPTWebLLM.close(): context.close(), playwright.stop(), then the
\* fields; an exception of context.close() leaves the rest undone
CloseOutcomes(b) ==
    IF b.pipe = "broken" THEN PipeFaults
    ELSE {NoExc} \cup (Faults(b) \cap {PwError})

\* close() without line 564: context and page cleared, the flag kept
ClosedInstKeepsFlag(i, e) == IF e = NoExc THEN DiscardedKeepsFlag(i) ELSE i

ClosedInst(i, e) == IF e = NoExc THEN Discarded(i) ELSE i

ClosedBr(b, i, e) ==
    IF e # NoExc THEN b
    ELSE [b EXCEPT !.page = IF i.context # None /\ @ # "none" THEN "closed" ELSE @,
                   !.pipe = IF i.playwright # None THEN "none" ELSE @]

\* the handlers of invoke (lines 429-478) for an exception e of the first
\* run: the record of the caller and the instance after them
HandlerRetries(e) ==
    e.cls \in {"RuntimeError", "BrokenPipeError", "OSError"} \/ HasPipeText(e)

HandlerSite(e) ==
    IF e.cls \in {"RuntimeError", "BrokenPipeError", "OSError"}
    THEN IF IsBrokenPipe(e) THEN "s450" ELSE "s460"
    ELSE "s471"

\* loop.run_until_complete on a thread whose own loop is running (the caller
\* of the worker-thread path, line 422): asyncio raises this before the
\* coroutine it was given takes a step
NestedLoopErr == Exc("RuntimeError", "NestedLoop", FALSE)

\* the handlers as they run on a thread whose loop is not running, taken
\* for every path
InvokeHandleNested(c, e) ==
    IF ~HandlerRetries(e)
    THEN /\ t' = [t EXCEPT ![c] = Finish(@, "error", NoText, e)]
         /\ UNCHANGED <<inst, br>>
    ELSE /\ t' = [t EXCEPT ![c] = StartSend(@, HandlerSite(e))]
         /\ IF HandlerSite(e) = "s450"
            THEN \E ce \in CloseOutcomes(br) :
                   /\ inst' = Discarded(ClosedInst(inst, ce))
                   /\ br' = IF inst.context # None THEN ClosedBr(br, inst, ce) ELSE br
            ELSE IF HandlerSite(e) = "s471"
            THEN /\ inst' = Discarded(inst)
                 /\ br' = br
            ELSE UNCHANGED <<inst, br>>

\* On the worker-thread path the handlers run on the caller's thread, whose
\* loop is running: close() at line 439 and _send_message at lines 450, 460
\* and 471 are handed to run_until_complete, which raises NestedLoopErr
\* without running them.  Line 442 swallows it, lines 451 and 472 turn it
\* into the "Connection error" ValueError, line 460 lets it leave invoke.
InvokeHandle(c, e) ==
    IF ~HandlerRetries(e)
    THEN /\ t' = [t EXCEPT ![c] = Finish(@, "error", NoText, e)]
         /\ UNCHANGED <<inst, br>>
    ELSE IF t[c].path = "thread"
    THEN /\ t' = [t EXCEPT ![c] =
                    Finish(@, "error", NoText,
                           IF HandlerSite(e) = "s460" THEN NestedLoopErr
                           ELSE ValueErr("RetryFailed", FALSE))]
         /\ inst' = IF HandlerSite(e) = "s460" THEN inst ELSE Discarded(inst)
         /\ br' = br
    ELSE /\ t' = [t EXCEPT ![c] = StartSend(@, HandlerSite(e))]
         /\ IF HandlerSite(e) = "s450"
            THEN \E ce \in CloseOutcomes(br) :
                   /\ inst' = Discarded(ClosedInst(inst, ce))
                   /\ br' = IF inst.context # None THEN ClosedBr(br, inst, ce) ELSE br
            ELSE IF HandlerSite(e) = "s471"
            THEN /\ inst' = Discarded(inst)
                 /\ br' = br
            ELSE UNCHANGED <<inst, br>>

\* _send_message has ended, with text or with an exception: what the call
\* site does with it
SendReturn(c) ==
    /\ At(c, "s_exit")
    /\ LET e == t[c].exc
           site == t[c].site
       IN IF e = NoExc
          THEN /\ t' = [t EXCEPT ![c] = Finish(@, "text", t[c].text, NoExc)]
               /\ UNCHANGED <<inst, br>>
          ELSE CASE site = "s485" ->
                      \* _run_in_thread, lines 486-494
                      IF IsOSError(e) /\ Errno(e) = EPIPE
                      THEN /\ inst' = Discarded(inst)
                           /\ t' = [t EXCEPT ![c] = StartSend(@, "s493")]
                           /\ br' = br
                      ELSE InvokeHandle(c, e)
                 [] site \in {"s493", "s428"} -> InvokeHandle(c, e)
                 [] site \in {"s450", "s471"} ->
                      /\ t' = [t EXCEPT ![c] =
                                 Finish(@, "error", NoText, ValueErr("RetryFailed", e.pipeText))]
                      /\ UNCHANGED <<inst, br>>
                 [] site = "s460" ->
                      /\ t' = [t EXCEPT ![c] = Finish(@, "error", NoText, e)]
                      /\ UNCHANGED <<inst, br>>
    /\ UNCHANGED dom

FirstSite(path) ==
    CASE path = "direct" -> "s428"
      [] path = "thread" -> "s485"
      [] path = "noloop" -> "s460"

\* what may have happened to the page since the last call
PageDrift(b) ==
    IF b.page = "live" /\ Faults(b) # {}
    THEN {"live", "closed", "unreachable"} ELSE {b.page}

\* invoke(messages): lines 416-428
Invoke(c) ==
    /\ At(c, "idle")
    /\ t[c].calls < CallsOf(br)
    /\ \E prompt \in PromptsOf(br), path \in PathsOf(br), pg \in PageDrift(br) :
         /\ br' = [br EXCEPT !.page = pg]
         /\ t' = [t EXCEPT ![c] =
                    StartSend([@ EXCEPT !.calls = @ + 1, !.sends = 0,
                                        !.path = path, !.prompt = prompt],
                              FirstSite(path))]
    /\ dom' \in Evolve(dom)
    /\ UNCHANGED inst

\* close(), called by the owner between calls; the caller sees it return
\* ("closed") or raise
Close(c) ==
    /\ At(c, "idle")
    /\ \A o \in Callers : t[o].pc = "idle"
    /\ \E ce \in (IF inst.context # None THEN CloseOutcomes(br) ELSE {NoExc}) :
         /\ inst' = ClosedInst(inst, ce)
         /\ br' = ClosedBr(br, inst, ce)
         /\ t' = [t EXCEPT ![c].out =
                    [kind |-> IF ce = NoExc THEN "closed" ELSE "close_error",
                     txt |-> NoText.txt, el |-> NoText.el, exc |-> ce]]
    /\ UNCHANGED dom

\* ------------------------------------------------------------ specification
Step(c) ==
    \/ Invoke(c)
    \/ SendEnsure(c)
    \/ InitializeGuard(c)
    \/ InitializeCleanup(c)
    \/ InitializeLaunch(c)
    \/ InitializeForcedCleanup(c)
    \/ InitializeRelaunch(c)
    \/ InitializePage(c)
    \/ InitializeGoto(c)
    \/ InitializeLogin(c)
    \/ InitializeLoginWait(c)
    \/ SendStaleCheck(c)
    \/ SendNavigate(c)
    \/ SendNavigateAgain(c)
    \/ SendPause(c)
    \/ SendLoadingQuery(c)
    \/ SendLoadingPoll(c)
    \/ SendScroll(c)
    \/ SendLocate(c)
    \/ SendType(c)
    \/ SendBaseline(c)
    \/ SendSubmit(c)
    \/ SendAwaitResponse(c)
    \/ PollHead(c)
    \/ PollScan(c)
    \/ PollSettle(c)
    \/ PollTick(c)
    \/ FinalScan(c)
    \/ FinalReread(c)
    \/ FinalPageText(c)
    \/ SendReturn(c)
    \/ Close(c)

\* one caller: the calls of invoke follow one another
Next == Step(1) /\ UNCHANGED <<fm, gn, srv>>

\* ------------------------------------------------------- _format_messages
\* A string is the sequence of its characters; "" is << >>.
Chars == {"a", "b"}

\* the contents of a message: the empty string and the one-character strings
Contents == {<< >>} \cup {<<ch>> : ch \in Chars}

\* "\n\n"
separator == <<"LF", "LF">>

\* What _format_messages reads of a message: whether its class name contains
\* 'System' or 'Human', and its content (msg.content, the dict's 'content'
\* or str(msg)).  "Other" is every other object: an AIMessage, a dict, a str.
Roles == {"System", "Human", "Other"}

Messages == [role : Roles, content : Contents]

MessageLists == UNION {[1 .. n -> Messages] : n \in 0 .. MaxMsgs}

\* system_content / user_content: None, or a string
NoContent == [set |-> FALSE, val |-> << >>]

Content(x) == [set |-> TRUE, val |-> x]

\* the truth value Python gives it: None and "" are false
Truthy(x) == x.set /\ x.val # << >>

\* the loop with line 524 assigning system_content only while it is None:
\* the first system message is the one kept
RECURSIVE CollectKeepingFirst(_, _, _, _)
CollectKeepingFirst(msgs, i, sc, uc) ==
    IF i > Len(msgs) THEN [system_content |-> sc, user_content |-> uc]
    ELSE LET content == msgs[i].content IN
         IF msgs[i].role = "System"
         THEN CollectKeepingFirst(msgs, i + 1, IF sc.set THEN sc ELSE Content(content), uc)
         ELSE CollectKeepingFirst(msgs, i + 1, sc,
                                  IF ~uc.set THEN Content(content)
                                  ELSE Content(uc.val \o separator \o content))

\* lines 513-539: the loop over the messages.  Every object has __class__,
\* so the branch of lines 535-539 is never taken; a message that is no
\* system message adds to user_content.
RECURSIVE CollectFrom(_, _, _, _)
CollectFrom(msgs, i, sc, uc) ==
    IF i > Len(msgs) THEN [system_content |-> sc, user_content |-> uc]
    ELSE LET content == msgs[i].content IN
         IF msgs[i].role = "System"
         THEN CollectFrom(msgs, i + 1, Content(content), uc)
         ELSE CollectFrom(msgs, i + 1, sc,
                          IF ~uc.set THEN Content(content)
                          ELSE Content(uc.val \o separator \o content))

\* "\n\n".join(parts)
RECURSIVE JoinFrom(_, _)
JoinFrom(parts, i) ==
    IF i > Len(parts) THEN << >>
    ELSE IF i = Len(parts) THEN parts[i]
    ELSE parts[i] \o separator \o JoinFrom(parts, i + 1)

\* lines 547-556: the contents of all messages, joined
Fallback(msgs) == JoinFrom([i \in 1 .. Len(msgs) |-> msgs[i].content], 1)

\* variants of lines 541-556: the user content put first; a separator put
\* before a content that stands alone; the fallback joining in reverse
ComposeUserFirst(sc, uc, msgs) ==
    IF Truthy(sc) /\ Truthy(uc) THEN uc.val \o separator \o sc.val
    ELSE IF Truthy(uc) THEN uc.val
    ELSE IF Truthy(sc) THEN sc.val
    ELSE Fallback(msgs)

ComposeAlwaysJoined(sc, uc, msgs) ==
    IF Truthy(sc) /\ Truthy(uc) THEN sc.val \o separator \o uc.val
    ELSE IF Truthy(uc) THEN separator \o uc.val
    ELSE IF Truthy(sc) THEN sc.val \o separator
    ELSE Fallback(msgs)

ComposeFallbackLast(sc, uc, msgs) ==
    IF Truthy(sc) /\ Truthy(uc) THEN sc.val \o separator \o uc.val
    ELSE IF Truthy(uc) THEN uc.val
    ELSE IF Truthy(sc) THEN sc.val
    ELSE IF msgs = << >> THEN << >> ELSE msgs[Len(msgs)].content

\* lines 541-556: what is returned
Compose(sc, uc, msgs) ==
    IF Truthy(sc) /\ Truthy(uc) THEN sc.val \o separator \o uc.val
    ELSE IF Truthy(uc) THEN uc.val
    ELSE IF Truthy(sc) THEN sc.val
    ELSE Fallback(msgs)

FormatMessages(msgs) ==
    LET r == CollectFrom(msgs, 1, NoContent, NoContent) IN
    Compose(r.system_content, r.user_content, msgs)

\* prompt = self._format_messages(messages)
Format ==
    /\ ~fm.done
    /\ fm' = [fm EXCEPT !.prompt = FormatMessages(fm.messages), !.done = TRUE]
    /\ UNCHANGED <<inst, br, dom, t, gn, srv>>

\* _format_messages on every message list, on an instance nothing was
\* started on
InitFormat ==
    /\ inst = [initialized |-> FALSE, playwright |-> None, context |-> None,
               page |-> None, headless |-> TRUE, timeout |-> 60000]
    /\ br = [pipe |-> "none", page |-> "none", auth |-> FALSE, env |-> "format",
             orphans |-> 0]
    /\ dom = BlankDom("strict", FullLens, FALSE)
    /\ t = [c \in Callers |-> Idle]
    /\ fm \in {[messages |-> m, prompt |-> << >>, done |-> FALSE] : m \in MessageLists}
    /\ gn = [pc |-> "none"]
    /\ srv = [pc |-> "none"]

NextFormat == Format

SpecFormat == InitFormat /\ [][NextFormat]_vars

\* ----------------------------------------------------- message lists, read
\* the system messages and the other messages of a list, in list order
SystemParts(msgs) == SelectSeq(msgs, LAMBDA m : m.role = "System")

UserParts(msgs) == SelectSeq(msgs, LAMBDA m : m.role # "System")

ContentsOf(msgs) == [i \in 1 .. Len(msgs) |-> msgs[i].content]

\* the user content of a list: the contents of its messages that are no
\* system messages, joined
UserText(msgs) == JoinFrom(ContentsOf(UserParts(msgs)), 1)

\* the system content of a list: the content of its last system message
LastSystem(msgs) ==
    LET sys == SystemParts(msgs) IN
    IF sys = << >> THEN << >> ELSE sys[Len(sys)].content

SystemExists(msgs) == LastSystem(msgs) # << >>

UserExists(msgs) == UserText(msgs) # << >>

\* a string without its line feeds
Unsep(str) == SelectSeq(str, LAMBDA ch : ch # "LF")

\* the strings of a sequence, one after the other
RECURSIVE Concat(_)
Concat(parts) == IF parts = << >> THEN << >> ELSE Head(parts) \o Concat(Tail(parts))

\* ---------------------------------------------------------- generate_node
\* graph.py, generate_node(state, llm).  A string is a sequence of pieces,
\* each a Text; its length is the sum of theirs.
RECURSIVE PiecesLen(_)
PiecesLen(str) == IF str = << >> THEN 0 ELSE StrLen(Head(str)) + PiecesLen(Tail(str))

\* a piece of fixed, non-blank text
Literal == Text(1, FALSE)

\* what an llm may answer: "", blanks, text, text with blanks around it
AnswerTexts == {Text(0, FALSE), Text(0, TRUE), Text(1, FALSE), Text(1, TRUE)}

\* what llm.invoke returns: an object with .content (a message), a str, an
\* object with .text and no .content, or another object
Responses == [shape : {"content", "str", "text", "other"}, val : AnswerTexts]

\* the classes llm.invoke raises, and str(e): '' or a message
Raises == [cls : {"StopIteration", "ValueError", "Exception"},
           str : {Text(0, FALSE), Literal}]

NoRaise == [cls |-> "none", str |-> Text(0, FALSE)]

\* a call of llm.invoke: what it returns, or what it raises
LlmOutcomes ==
    {[kind |-> "response", r |-> r, e |-> NoRaise] : r \in Responses}
    \cup {[kind |-> "raise", r |-> [shape |-> "other", val |-> Text(0, FALSE)], e |-> e] :
              e \in Raises}

\* lines 99-106: response.content, response, response.text, str(response)
AnswerOf(r) == IF r.shape = "other" THEN Literal ELSE r.val

\* lines 133-138: the same without the .text branch: str(simple_response)
SimpleAnswerOf(r) == IF r.shape \in {"other", "text"} THEN Literal ELSE r.val

\* not answer or answer.strip() == ""
Blank(answer) == StrLen(answer) = 0 \/ StrLen(Strip(answer)) = 0

\* str(e) if str(e) else repr(e)
ErrorMsg(e) == IF StrLen(e.str) > 0 THEN e.str ELSE Literal

\* what leaves the body of a try: the exception of llm.invoke, the
\* ValueError of lines 109-110 / 140-141, or nothing
BodyRaises(o, answer) ==
    IF o.kind = "raise" THEN o.e
    ELSE IF Blank(answer) THEN [cls |-> "ValueError", str |-> Literal]
    ELSE NoRaise

\* the except clauses of a try, in order; the first whose class the
\* exception is an instance of takes it (0: none, it propagates)
Handler(clauses, e) ==
    LET fits == {i \in 1 .. Len(clauses) :
                    clauses[i] = "Exception" \/ clauses[i] = e.cls}
    IN IF fits = {} THEN 0 ELSE CHOOSE i \in fits : \A j \in fits : i <= j

\* the inner try with line 143 only
OnlyStopIteration == <<"StopIteration">>

\* lines 143, 150
SimplifiedClauses == <<"StopIteration", "Exception">>

\* context[:3]
source_items == 3

\* lines 146-149: the heading, one piece per item of context[:3], the note
SourcesAnswer(n) ==
    <<Literal>> \o [i \in 1 .. (IF n < source_items THEN n ELSE source_items) |-> Literal]
        \o <<Literal>>

\* lines 151-178: the apology naming the provider, with the error details
ProviderName(llm) ==
    IF llm = "ChatGPTWebLLM" THEN "ChatGPT web app"
    ELSE IF llm = "ChatHuggingFace" THEN "Hugging Face model"
    ELSE "the language model"

ApologyAnswer(error_msg2, error_msg) ==
    <<Literal, IF StrLen(error_msg2) > 0 THEN error_msg2 ELSE error_msg, Literal>>

\* items of state["context"]
MaxContext == 4

GenerateStart(llm, n) ==
    [pc |-> "start", llm |-> llm, context |-> n, calls |-> 0, simplified |-> FALSE,
     got |-> "none", error_msg |-> Text(0, FALSE), kind |-> "none", provider |-> "none",
     answer |-> << >>, raised |-> NoRaise]

\* lines 95-113: llm.invoke(messages) with the system and the user message;
\* line 112 takes every Exception
GenerateInvoke ==
    /\ gn.pc = "start"
    /\ \E o \in LlmOutcomes :
         LET answer == AnswerOf(o.r)
             e == BodyRaises(o, answer)
             got == IF o.kind = "raise" THEN "raised"
                    ELSE IF Blank(answer) THEN "empty" ELSE "answer"
         IN gn' = IF e = NoRaise
                  THEN [gn EXCEPT !.pc = "done", !.calls = @ + 1, !.got = got,
                                  !.kind = "llm", !.answer = <<answer>>]
                  ELSE IF Handler(<<"Exception">>, e) = 0
                  THEN [gn EXCEPT !.pc = "done", !.calls = @ + 1, !.got = got,
                                  !.raised = e]
                  ELSE [gn EXCEPT !.pc = "retry", !.calls = @ + 1, !.got = got,
                                  !.error_msg = ErrorMsg(e)]
    /\ UNCHANGED <<inst, br, dom, t, fm, srv>>

\* lines 117-180: llm.invoke with the single message of the simplified
\* prompt, and the answers made when that fails too
GenerateSimplified ==
    /\ gn.pc = "retry"
    /\ \E o \in LlmOutcomes :
         LET answer == SimpleAnswerOf(o.r)
             e == BodyRaises(o, answer)
             h == Handler(SimplifiedClauses, e)
             called == [gn EXCEPT !.pc = "done", !.calls = @ + 1, !.simplified = TRUE]
         IN gn' = IF e = NoRaise
                  THEN [called EXCEPT !.kind = "llm", !.answer = <<answer>>]
                  ELSE IF h = 0 THEN [called EXCEPT !.raised = e]
                  ELSE IF SimplifiedClauses[h] = "StopIteration"
                  THEN [called EXCEPT !.kind = "sources",
                                      !.answer = SourcesAnswer(gn.context)]
                  ELSE [called EXCEPT !.kind = "apology",
                                      !.provider = ProviderName(gn.llm),
                                      !.answer = ApologyAnswer(ErrorMsg(e), gn.error_msg)]
    /\ UNCHANGED <<inst, br, dom, t, fm, srv>>

\* generate_node for every llm (type(llm).__name__) and every size of the
\* context
InitGenerate ==
    /\ inst = [initialized |-> FALSE, playwright |-> None, context |-> None,
               page |-> None, headless |-> TRUE, timeout |-> 60000]
    /\ br = [pipe |-> "none", page |-> "none", auth |-> FALSE, env |-> "generate",
             orphans |-> 0]
    /\ dom = BlankDom("strict", FullLens, FALSE)
    /\ t = [c \in Callers |-> Idle]
    /\ fm = NoFormat
    /\ gn \in {GenerateStart(llm, n) : llm \in {"ChatGPTWebLLM", "ChatHuggingFace", "ChatOpenAI"}, n \in 0 .. MaxContext}
    /\ srv = [pc |-> "none"]

NextGenerate == GenerateInvoke \/ GenerateSimplified

SpecGenerate == InitGenerate /\ [][NextGenerate]_vars

\* ------------------------------------------------------ server.py, the cache
\* The globals vectorstore, graph and current_settings.  None is << >>; a
\* graph is <<[settings, serial]>>: the settings its llm and its retriever
\* were made with, and which build it is.
\* settings = (provider, model, k)
Settings == [provider : {"openai", "OpenAI", "chatgpt", "other"},
             model : {"None", "gpt-4o", "gpt-5"}, k : {4, 6}]

\* provider.lower()
Lower(provider) == IF provider = "OpenAI" THEN "openai" ELSE provider

\* graph.py, get_llm (lines 202-295): whether it can return an llm (TRUE)
\* or raise (FALSE).  A model outside allowed_models and an unknown
\* provider raise; the constructors raise without their keys or packages.
LlmBuilds(st) ==
    IF Lower(st.provider) = "openai"
    THEN IF st.model \in {"None", "gpt-4o"} THEN {TRUE, FALSE} ELSE {FALSE}
    ELSE IF Lower(st.provider) = "chatgpt" THEN {TRUE, FALSE}
    ELSE {FALSE}

\* graphs built in a run
MaxGraphs == 3

\* lines 28-37, init_vectorstore(): the vectorstore, loaded when it is None
\* and the index directory is there (ix); << >> when it raises
InitVectorstore(sv, ix) ==
    IF sv.vectorstore # << >> THEN sv.vectorstore
    ELSE IF ix THEN <<"index">> ELSE << >>

\* get_or_create_graph assigning current_settings before it calls get_llm
GetOrCreateSettingsFirst(sv, st, ix, ok) ==
    LET vs == InitVectorstore(sv, ix)
        called == [sv EXCEPT !.vectorstore = vs, !.op = "get", !.args = st,
                             !.raised = FALSE, !.ret = << >>]
    IN IF vs = << >> THEN [called EXCEPT !.raised = TRUE]
       ELSE IF sv.graph # << >> /\ sv.current_settings = <<st>>
       THEN [called EXCEPT !.ret = sv.graph]
       ELSE IF ~ok THEN [called EXCEPT !.raised = TRUE, !.current_settings = <<st>>]
       ELSE LET built == <<[settings |-> st, serial |-> sv.serial + 1]>>
            IN [called EXCEPT !.graph = built, !.current_settings = <<st>>,
                              !.serial = @ + 1, !.ret = built]

\* lines 40-55, get_or_create_graph(provider, model, k): the globals after
\* it, what it returned (ret) or that it raised; ok: get_llm returns
GetOrCreate(sv, st, ix, ok) ==
    LET vs == InitVectorstore(sv, ix)
        called == [sv EXCEPT !.vectorstore = vs, !.op = "get", !.args = st,
                             !.raised = FALSE, !.ret = << >>]
    IN IF vs = << >> THEN [called EXCEPT !.raised = TRUE]
       ELSE IF sv.graph # << >> /\ sv.current_settings = <<st>>
       THEN [called EXCEPT !.ret = sv.graph]
       ELSE IF ~ok THEN [called EXCEPT !.raised = TRUE]
       ELSE LET built == <<[settings |-> st, serial |-> sv.serial + 1]>>
            IN [called EXCEPT !.graph = built, !.current_settings = <<st>>,
                              !.serial = @ + 1, !.ret = built]

GetOrCreateGraph ==
    /\ srv.pc = "serving" /\ srv.serial < MaxGraphs
    /\ \E st \in Settings, ix \in BOOLEAN :
         \E ok \in LlmBuilds(st) : srv' = GetOrCreate(srv, st, ix, ok)
    /\ UNCHANGED <<inst, br, dom, t, fm, gn>>

\* lines 21-25, reset_graph_cache()
ResetGraphCache ==
    /\ srv.pc = "serving"
    /\ srv' = [srv EXCEPT !.graph = << >>, !.current_settings = << >>,
                          !.op = "reset", !.raised = FALSE, !.ret = << >>]
    /\ UNCHANGED <<inst, br, dom, t, fm, gn>>

\* lines 81-97, load_index(): the cache is cleared when init_vectorstore
\* returns; its exception is answered with status 500
LoadIndex ==
    /\ srv.pc = "serving"
    /\ \E ix \in BOOLEAN :
         LET vs == InitVectorstore(srv, ix) IN
         srv' = IF vs = << >>
                THEN [srv EXCEPT !.op = "load", !.raised = TRUE, !.ret = << >>]
                ELSE [srv EXCEPT !.vectorstore = vs, !.graph = << >>,
                                 !.current_settings = << >>,
                                 !.op = "load", !.raised = FALSE, !.ret = << >>]
    /\ UNCHANGED <<inst, br, dom, t, fm, gn>>

\* lines 129-134 of ask_question: the cache is reset when the provider of
\* current_settings is not provider.lower(); then get_or_create_graph
AskQuestion ==
    /\ srv.pc = "serving" /\ srv.serial < MaxGraphs
    /\ \E st \in Settings, ix \in BOOLEAN :
         \E ok \in LlmBuilds(st) :
            LET reset == /\ srv.current_settings # << >>
                         /\ srv.current_settings[1].provider # Lower(st.provider)
                before == IF reset
                          THEN [srv EXCEPT !.graph = << >>, !.current_settings = << >>]
                          ELSE srv
            IN srv' = [GetOrCreate(before, st, ix, ok) EXCEPT !.op = "ask"]
    /\ UNCHANGED <<inst, br, dom, t, fm, gn>>

\* the module as imported: lines 17-19
InitServer ==
    /\ inst = [initialized |-> FALSE, playwright |-> None, context |-> None,
               page |-> None, headless |-> TRUE, timeout |-> 60000]
    /\ br = [pipe |-> "none", page |-> "none", auth |-> FALSE, env |-> "server",
             orphans |-> 0]
    /\ dom = BlankDom("strict", FullLens, FALSE)
    /\ t = [c \in Callers |-> Idle]
    /\ fm = NoFormat
    /\ gn = [pc |-> "none"]
    /\ srv = [pc |-> "serving", vectorstore |-> << >>, graph |-> << >>,
              current_settings |-> << >>, serial |-> 0,
              op |-> "none", args |-> << >>, raised |-> FALSE, ret |-> << >>]

NextServer == GetOrCreateGraph \/ ResetGraphCache \/ LoadIndex \/ AskQuestion

SpecServer == InitServer /\ [][NextServer]_vars

\* The bridge and the session: every fault, every path, answers that arrive
\* complete.
Init == InitWith("session", {"strict"}, FullLens, FALSE)

Spec == Init /\ [][Next]_vars

\* The page: every markup and every course of a streaming answer.
InitPage ==
    \/ InitWith("page", Layouts, CoreLens, FALSE)
    \/ InitWith("calm", Layouts, CoreLens, FALSE)

SpecPage == InitPage /\ [][Next]_vars

\* an awaited operation that has begun returns or raises: no step that can
\* be taken is put off for ever
Fairness == WF_vars(Next)

\* the same calls, every awaited operation returning
SpecLive == Init /\ [][Next]_vars /\ Fairness

\* Two callers share the instance: nothing in invoke or _send_message
\* keeps their steps apart.
InitShared == InitWith("shared", {"strict"}, FullLens, TRUE)

NextShared == (\E c \in Callers : Step(c)) /\ UNCHANGED <<fm, gn, srv>>

SpecShared == InitShared /\ [][NextShared]_vars

\* ------------------------------------------------------------------- claims
\* _send_message has returned text to its call site
Returned(c) == t[c].pc = "s_exit" /\ t[c].exc = NoExc

\* invoke has raised to its caller
Raised(c) == t[c].pc = "idle" /\ t[c].out.kind = "error"

\* caller c is at a statement of _send_message that works on the page: the
\* navigation, the input field, the send gesture, the turns (lines 174-386)
OnPage(c) ==
    t[c].pc \in {"s175", "s181", "s184", "s185", "s190", "s199", "s207", "s254",
                 "s275", "s283", "s298", "s313", "s319", "s326", "s341", "s344",
                 "s352", "s359"}

\* the user-facing "Connection lost ... Please try again" error
ConnectionLost == ValueErr("ConnectionLost", FALSE)

\* C1: in one call of invoke, on either bridging path, _send_message is
\* started at most twice: the first attempt and at most one retry.  When the
\* second attempt fails too, invoke raises to its caller and starts no third.
C1_AtMostTwoStarts ==
    [][\A c \in Callers :
          /\ t'[c].sends <= 2
          /\ (t[c].pc = "s_exit" /\ t[c].sends = 2 /\ t[c].exc # NoExc /\ t'[c] # t[c])
                => (t'[c].pc = "idle" /\ t'[c].out.kind = "error")]_vars

\* on the worker-thread path both attempts ran in the worker and failed, and
\* the handler's run_until_complete on the caller's thread was refused
C1_Witness ==
    \E c \in Callers :
        /\ t[c].path = "thread" /\ t[c].sends = 2 /\ Raised(c)
        /\ t[c].out.exc = ValueErr("RetryFailed", FALSE)

\* C2: when the poll loop has used up max_wait without accepting a
\* candidate, _send_message ends with an error (the response timeout): it
\* returns no text.
C2_ExhaustedPollRaises ==
    \A c \in Callers : (t[c].pc = "s_exit" /\ t[c].exhausted) => t[c].exc # NoExc

\* C3: whenever _send_message returns text, there are more assistant turns
\* than the baseline counted, and the text was read from an assistant turn
\* that was appended after the submission.
C3_ReturnsNewAssistantTurn ==
    \A c \in Callers :
        Returned(c) =>
            /\ Len(Query(dom, 1)) > t[c].initial_message_count
            /\ t[c].text.el > t[c].sentAt
            /\ dom.els[t[c].text.el].role = "assistant"

\* C4: a text whose stripped length is at most min_len is neither accepted
\* by the poll loop nor returned by _send_message.
C4_ShortTextNeverReturned ==
    \A c \in Callers :
        /\ (t[c].response_found /\ t[c].pc = "s344") => LongEnough(t[c].text.txt)
        /\ Returned(c) => LongEnough(t[c].text.txt)

\* C5: on one instance at most one _send_message is in flight: while one
\* caller is inside invoke, no other caller works on the page.
C5_OneInFlight ==
    \A a, b \in Callers : (a # b /\ t[a].pc # "idle") => ~OnPage(b)

\* C6: when the pipe to the driver process breaks inside the try block of
\* _send_message, the call ends with the "Connection lost" error and the
\* session is discarded, so that the next call builds it anew.
C6_BrokenPipeDiscards ==
    \A c \in Callers :
        (t[c].pc = "s_exit" /\ t[c].tried /\ br.pipe = "broken")
            => /\ t[c].exc = ConnectionLost
               /\ ~inst.initialized /\ inst.context = None /\ inst.page = None

\* C7: the caller of invoke sees the error of a broken pipe only after
\* exactly one automatic retry: _send_message was started twice.
C7_RetriedBeforeSurfaced ==
    \A c \in Callers :
        (Raised(c) /\ (t[c].out.exc = ConnectionLost \/ IsBrokenPipe(t[c].out.exc)
                          \/ HasPipeText(t[c].out.exc)))
            => t[c].sends = 2

\* C8: a _send_message that finds the page handle stale runs _initialize
\* exactly once: there is no second rebuild in that call.
C8_StaleRebuildsOnce ==
    \A c \in Callers : t[c].stale => t[c].builds <= 1

\* C9: every error that invoke raises to its caller is a ValueError with
\* one of the user-facing messages: no other exception class leaves invoke.
C9_OnlyValueErrors ==
    \A c \in Callers : Raised(c) => t[c].out.exc.cls = "ValueError"

\* C10: invoke starts a further _send_message only after a broken pipe: any
\* other failure of an attempt is raised to the caller at once.
C10_OtherFailuresNotRetried ==
    [][\A c \in Callers :
          (t[c].pc = "s_exit" /\ t'[c].sends = t[c].sends + 1)
              => (IsBrokenPipe(t[c].exc) \/ HasPipeText(t[c].exc))]_vars

\* C11: _initialize called while _initialized is true returns at once: no
\* cleanup, no launch, no navigation; the instance, the browser and the page
\* are what they were, and the caller goes on after its call.
C11_EnsureIsIdempotent ==
    [][\A c \in Callers :
          (t[c].pc = "i28" /\ inst.initialized /\ t'[c].pc # "i28")
              => /\ inst' = inst /\ br' = br /\ dom' = dom
                 /\ t'[c].pc = RetTarget(t[c].ret)]_vars

\* a caller whose _initialize found the session another caller had opened
C11_Witness ==
    \E c \in Callers : t[c].kept /\ t[c].pc = "s163" /\ inst.initialized

\* C12 as stated: for every system message of the list with a non-empty
\* content S, and a non-empty user content U, the prompt is S, the
\* separator, U.
C12_SystemThenUser ==
    fm.done =>
        \A i \in 1 .. Len(fm.messages) :
            (/\ fm.messages[i].role = "System"
             /\ fm.messages[i].content # << >>
             /\ UserExists(fm.messages))
                => fm.prompt = fm.messages[i].content \o separator \o UserText(fm.messages)

\* C12, amended: with S the content of the last system message of the list
\* and U the user content, both non-empty, the prompt is S, the separator,
\* U, wherever the system message stands in the list.
C12_LastSystemThenUser ==
    (fm.done /\ SystemExists(fm.messages) /\ UserExists(fm.messages))
        => fm.prompt = LastSystem(fm.messages) \o separator \o UserText(fm.messages)

\* a user message followed by the system message: the system content leads
C12_Witness ==
    /\ fm.done
    /\ fm.messages = <<[role |-> "Human", content |-> <<"a">>],
                       [role |-> "System", content |-> <<"b">>]>>
    /\ fm.prompt = <<"b", "LF", "LF", "a">>

\* C13: when only one of the system content and the user content exists,
\* the prompt is that content and nothing else; a list of one message
\* yields the content of that message.
C13_SingleContentVerbatim ==
    fm.done =>
        /\ Len(fm.messages) = 1 => fm.prompt = fm.messages[1].content
        /\ (SystemExists(fm.messages) /\ ~UserExists(fm.messages))
               => fm.prompt = LastSystem(fm.messages)
        /\ (UserExists(fm.messages) /\ ~SystemExists(fm.messages))
               => fm.prompt = UserText(fm.messages)

\* a list of one user message, and a list with only a system message
C13_Witness ==
    /\ fm.done
    /\ \/ fm.messages = <<[role |-> "Human", content |-> <<"a">>]>> /\ fm.prompt = <<"a">>
       \/ fm.messages = <<[role |-> "System", content |-> <<"b">>]>> /\ fm.prompt = <<"b">>

\* C14: when neither a system content nor a user content is found, the
\* prompt holds the contents of all messages in list order, none dropped,
\* with one separator between two neighbours.
C14_FallbackKeepsAll ==
    (fm.done /\ ~SystemExists(fm.messages) /\ ~UserExists(fm.messages))
        => /\ Unsep(fm.prompt) = Concat(ContentsOf(fm.messages))
           /\ Len(fm.prompt) = Len(Unsep(fm.prompt))
                  + (IF fm.messages = << >> THEN 0
                     ELSE Len(separator) * (Len(fm.messages) - 1))

\* neither content is found though a message has a content: a system
\* message followed by an empty one
C14_Witness ==
    /\ fm.done
    /\ ~SystemExists(fm.messages) /\ ~UserExists(fm.messages)
    /\ \E i \in 1 .. Len(fm.messages) : fm.messages[i].content # << >>
    /\ Unsep(fm.prompt) # << >>

\* the poll loop of caller c accepted an assistant turn that was appended
\* after the submission: the count of assistant turns exceeds the baseline
AcceptedNewTurn(c) ==
    /\ t[c].response_found
    /\ t[c].accepted.el > t[c].sentAt
    /\ dom.els[t[c].accepted.el].role = "assistant"
    /\ Len(Query(dom, 1)) > t[c].initial_message_count
    /\ LongEnough(t[c].accepted.txt)

\* C15: when no awaited operation fails, a submission whose poll finds a new
\* assistant turn longer than the threshold with no busy indicator runs
\* poll (s319), settle pause and busy check (s326), final read (s344),
\* final re-read (s352) in that order, and returns the text of that turn.
C15_PhasesInOrder ==
    [][\A c \in Callers :
          br.env = "calm" =>
              /\ (t'[c].pc = "s326" /\ t[c].pc # "s326") => t[c].pc = "s319"
              /\ (t'[c].response_found /\ ~t[c].response_found)
                     => (t[c].pc = "s326" /\ t'[c].pc = "s344" /\ dom'.busy = {})
              /\ (AcceptedNewTurn(c) /\ t[c].pc = "s344" /\ t'[c].pc # "s344")
                     => t'[c].pc = "s352"
              /\ (AcceptedNewTurn(c) /\ t[c].pc = "s352" /\ t'[c].pc # "s352")
                     => /\ t'[c].pc = "s_exit" /\ t'[c].exc = NoExc
                        /\ t'[c].text = [t[c].accepted EXCEPT !.txt = Strip(@)]]_vars

\* a second call, whose baseline counts the turn of the first, returned the
\* text of the new turn it accepted
C15_Witness ==
    \E c \in Callers :
        /\ br.env = "calm"
        /\ Returned(c) /\ AcceptedNewTurn(c)
        /\ t[c].initial_message_count >= 1
        /\ t[c].text = [t[c].accepted EXCEPT !.txt = Strip(@)]

\* strategy k of textarea_selectors yields an element (its first match)
\* that is visible, and one that is visible and can be typed into
YieldsVisible(inputs, k) ==
    LET m == Resolve(inputs, Locator(k, "first")) IN m # 0 /\ inputs[m].vis

Qualifies(inputs, k) ==
    LET m == Resolve(inputs, Locator(k, "first")) IN
    m # 0 /\ inputs[m].vis /\ inputs[m].enabled

C17_UnresolvedInputNotUsed ==
    \A c \in Callers :
        t[c].pc = "s254"
            => \/ \E k \in textarea_selectors : YieldsVisible(t[c].inputs, k)
               \/ Scan(t[c].inputs, FALSE) # NoLocator

\* _initialize of caller c has ended with the error msg
InitFailedWith(tc, msg) == tc.pc = "s_exit" /\ tc.exc = ValueErr(msg, FALSE)

C19_LoginWaitBounded ==
    [][\A c \in Callers :
          t[c].pc = "i127" =>
              /\ t[c].waited <= login_max_wait /\ t[c].waited % login_step = 0
              /\ ~inst.initialized /\ ~inst.headless
              /\ (inst'.initialized /\ t'[c] # t[c])
                     => (t[c].waited < login_max_wait /\ br'.auth)
              /\ InitFailedWith(t'[c], "LoginTimeout")
                     => (t[c].waited = login_max_wait /\ ~inst'.initialized)
              /\ (t[c].waited = login_max_wait /\ t'[c] # t[c])
                     => InitFailedWith(t'[c], "LoginTimeout")]_vars

\* nobody logged in during the wait: the build ended with the login timeout
C19_Witness ==
    \E c \in Callers :
        /\ InitFailedWith(t[c], "LoginTimeout")
        /\ ~inst.headless /\ ~inst.initialized /\ ~br.auth

\* the errors a response poll ends with: the timeout and no response
PollFailure(e) ==
    e \in {ValueErr("ResponseTimeout", FALSE), ValueErr("NoResponse", FALSE)}

\* the poll loop and the final extraction
PollPcs == {"s313", "s319", "s326", "s341", "s344", "s352", "s359"}

\* C20: a response poll that ends with the timeout or the no-response
\* error leaves the instance and the browser as they are; invoke hands the
\* error to its caller without touching them; the next invoke, finding the
\* session initialized and the page live, goes on without a build.
C20_TimeoutKeepsSession ==
    [][\A c \in Callers :
          /\ (t[c].pc \in PollPcs /\ t'[c].pc = "s_exit" /\ PollFailure(t'[c].exc))
                 => (inst' = inst /\ br' = br)
          /\ (t[c].pc = "s_exit" /\ t[c].sent /\ PollFailure(t[c].exc) /\ t'[c] # t[c])
                 => (inst' = inst /\ br' = br /\ t'[c].pc = "idle"
                     /\ t'[c].out.kind = "error")
          /\ (t[c].pc = "s159" /\ PollFailure(t[c].out.exc) /\ inst.initialized
                /\ t'[c] # t[c])
                 => (t'[c].pc = "s163" /\ inst' = inst /\ br' = br)
          /\ (t[c].pc = "s163" /\ PollFailure(t[c].out.exc) /\ inst.page # None
                /\ br.page = "live" /\ t'[c] # t[c])
                 => (t'[c].pc = "s175" /\ inst' = inst /\ br' = br)]_vars

\* the call after a timed-out poll passed the test of line 159 without a
\* build
C20_Witness ==
    \E c \in Callers :
        /\ t[c].pc = "s163" /\ t[c].calls = 2 /\ t[c].sends = 1 /\ t[c].builds = 0
        /\ t[c].out.exc = ValueErr("ResponseTimeout", FALSE)
        /\ inst.initialized /\ inst.page # None /\ br.page = "live"

\* the Playwright drivers that were started and not stopped: those left
\* running without a reference, and the one self.playwright refers to
Drivers(b) == b.orphans + (IF b.pipe = "ok" THEN 1 ELSE 0)

\* C21: whenever a session is discarded or replaced its driver is stopped:
\* at most one started-and-not-stopped Playwright driver exists.
C21_AtMostOneDriver == Drivers(br) <= 1

\* C22: when invoke finds the caller's loop running, _send_message and its
\* retry run only in the worker thread (lines 485 and 493), never at a
\* run_until_complete of the caller's thread, and invoke hands its caller
\* exactly what the worker returned or raised.
C22_WorkerOnly ==
    [][\A c \in Callers :
          /\ (t'[c].path = "thread" /\ t'[c].pc # "idle")
                => t'[c].site \in {"s485", "s493"}
          /\ (t[c].path = "thread" /\ t[c].pc = "s_exit" /\ t'[c].pc = "idle")
                => /\ t'[c].out.exc = t[c].exc
                   /\ t'[c].out.kind = (IF t[c].exc = NoExc THEN "text" ELSE "error")
                   /\ t'[c].out.txt = t[c].text.txt]_vars

\* the loops of one call: polls of one busy indicator, polls of all three,
\* the seconds waited for the response and for the login
LoopsBounded(busy_polls) ==
    \A c \in Callers :
        /\ t[c].polls < load_polls
        /\ t[c].lpolls <= busy_polls
        /\ t[c].pc \in PollPcs => t[c].waited \div poll_step <= 45
        /\ t[c].pc = "i127" => t[c].waited \div login_step <= 150
        /\ t[c].sends <= 2 /\ t[c].builds <= 2

\* every call of invoke that has begun ends (one caller calls at a time)
Terminates == (\E c \in Callers : t[c].pc # "idle") ~> (\A c \in Callers : t[c].pc = "idle")

FailedStart ==
    UNION {{ValueErr("FailedStart", p), Convert(ValueErr("FailedStart", p))} : p \in BOOLEAN}

\* C24: a launch that fails on the profile lock is followed by one forced
\* cleanup and then one relaunch; a relaunch that fails ends _initialize
\* with the "Failed to start browser" error; a run of _initialize launches
\* at most twice.
C24_LockRetriedOnce ==
    [][\A c \in Callers :
          /\ (t[c].pc = "i71" /\ t'[c] # t[c]) => t'[c].pc = "i77"
          /\ (t[c].pc = "i77" /\ t'[c] # t[c])
                => \/ t'[c].pc = "i92" /\ t'[c].launches = 2
                   \/ t'[c].pc = "s_exit" /\ t'[c].exc \in FailedStart
          /\ t'[c].launches <= 2]_vars

\* C25: at the busy check that follows a candidate and the settle pause, a
\* busy indicator on the page keeps the candidate from being accepted and
\* the poll goes on (next selector, or next round); response_found is set
\* only there, and only when the check saw no busy indicator.
C25_BusyBlocksAcceptance ==
    [][\A c \in Callers :
          /\ (t[c].pc = "s326" /\ t'[c] # t[c] /\ dom'.busy # {})
                => (~t'[c].response_found /\ t'[c].pc \in {"s319", "s341"})
          /\ (t'[c].response_found /\ ~t[c].response_found)
                => (t[c].pc = "s326" /\ t'[c].pc = "s344" /\ dom'.busy = {})]_vars

\* no operation failed: a busy indicator alone sent the poll from the busy
\* check on to the next selector
C25_Witness ==
    \E c \in Callers :
        /\ br.env = "calm"
        /\ t[c].pc = "s319" /\ t[c].sel > 1
        /\ dom.busy # {} /\ ~t[c].response_found

\* the steps before the submission, in one step of caller c: the wait for a
\* busy page (at most busy_polls polls) neither sends nor counts; the
\* baseline is assigned at line 276 only, before the message is sent; the
\* message is sent at lines 283-296 only
PreSubmissionOrdered(c, busy_polls) ==
    /\ t'[c].polls < load_polls /\ t'[c].lpolls <= busy_polls
    /\ (t[c].pc \in {"s185", "s190"} /\ t'[c] # t[c])
          => /\ t'[c].pc \in {"s185", "s190", "s199"}
             /\ ~t'[c].sent /\ t'[c].initial_message_count = 0
    /\ (t'[c].initial_message_count # t[c].initial_message_count)
          => \/ t[c].pc = "s275" /\ ~t[c].sent /\ t'[c].pc = "s283"
             \/ t'[c].pc = "s159"
    /\ (t[c].pc = "s275" /\ t'[c] # t[c]) => (t'[c].pc = "s283" /\ ~t'[c].sent)
    /\ (t'[c].sent /\ ~t[c].sent) => (t[c].pc = "s283" /\ t'[c].pc = "s298")

\* C26 (as stated): in _send_message the wait for a busy page, of at most 15
\* polls, comes first, the baseline is recorded after it, the message is
\* sent after the baseline, and the baseline is not taken again afterwards.
C26_WaitOfFifteenThenBaseline ==
    [][\A c \in Callers : PreSubmissionOrdered(c, load_polls)]_vars

\* C26 (amended): the same order, the wait making at most 15 polls for each
\* of the three busy indicators.
C26_WaitThenBaselineThenSend ==
    [][\A c \in Callers : PreSubmissionOrdered(c, 3 * load_polls)]_vars

\* the message of a second call was sent after a baseline that counted the
\* turn of the first
C26_Witness ==
    \E c \in Callers :
        /\ t[c].pc = "s298" /\ t[c].sent
        /\ t[c].initial_message_count >= 1
        /\ t[c].sentAt >= 2

\* the last element of the page, in document order, that is rendered with a
\* non-zero size (0: none)
LastVisible(inputs) ==
    LET vs == {i \in 1 .. Len(inputs) : inputs[i].vis} IN
    IF vs = {} THEN 0 ELSE CHOOSE i \in vs : \A j \in vs : j <= i

\* C27: when no strategy of textarea_selectors yields a visible element and
\* the location does not fail, the input used is the one the last-resort
\* scan selected: the last visible editable element of the page.
C27_ScanSelectsLastVisible ==
    \A c \in Callers :
        (t[c].pc = "s254" /\ \A k \in textarea_selectors : ~YieldsVisible(t[c].inputs, k))
            => /\ t[c].textarea.which = "last"
               /\ Resolve(t[c].inputs, t[c].textarea) = LastVisible(t[c].inputs)
               /\ LastVisible(t[c].inputs) # 0

\* the response selectors that match more elements than the baseline, and
\* those of them whose last match holds more than min_len characters
NewContent(d, initial) == {k \in response_selectors : Len(Query(d, k)) > initial}

LongNewContent(d, initial) ==
    {k \in NewContent(d, initial) : LongEnough(d.els[LastOf(d, k)].txt)}

\* the step of caller c that makes the page-wide query (line 359), `from`
\* being the selectors whose last match it may return: it returns the
\* stripped text of one of them, or, if there is none, raises "No response
\* received", unless the query itself fails; and that error is raised there
\* only
PageTextStep(c, from) ==
    /\ (t[c].pc = "s359" /\ t'[c] # t[c])
          => \/ t'[c].pc = "s_exit" /\ t'[c].exc \notin {NoExc, ValueErr("NoResponse", FALSE)}
             \/ /\ from # {}
                /\ t'[c].pc = "s_exit" /\ t'[c].exc = NoExc
                /\ \E k \in from :
                      t'[c].text = [el |-> LastOf(dom, k),
                                    txt |-> Strip(dom.els[LastOf(dom, k)].txt)]
             \/ /\ from = {}
                /\ t'[c].pc = "s_exit" /\ t'[c].exc = ValueErr("NoResponse", FALSE)
    /\ (t'[c].exc = ValueErr("NoResponse", FALSE) /\ t[c].exc # t'[c].exc)
          => t[c].pc = "s359"

\* C28 (as stated): when the poll and the per-selector reads gave nothing,
\* and some response selector matches more elements than the baseline, the
\* last of them longer than min_len, _send_message returns that text; "No
\* response received" is raised only when there is no such selector.
C28_AnySelectorWithNewContent ==
    [][\A c \in Callers :
          PageTextStep(c, LongNewContent(dom, t[c].initial_message_count))]_vars

\* C28 (amended): the page-wide query looks at one selector only, the first
\* in list order that matches more elements than the baseline: the text of
\* its last match is returned if it is longer than min_len, and "No response
\* received" is raised otherwise.
C28_FirstSelectorWithNewContent ==
    [][\A c \in Callers :
          LET new == NewContent(dom, t[c].initial_message_count)
              first == IF new = {} THEN {} ELSE {Min(new)}
          IN PageTextStep(c, first \cap LongNewContent(dom, t[c].initial_message_count))]_vars

\* _send_message returned the text the page-wide query found
C28_Witness ==
    \E c \in Callers :
        /\ Returned(c) /\ t[c].paged
        /\ LongEnough(t[c].text.txt)

\* C29: the response poll stops when the time waited reaches the timeout
\* the instance was constructed with, and the timeout named in the
\* response-timeout error (self.timeout, line 391) is the bound the poll
\* loop applies.
C29_PollBoundIsTimeout ==
    \A c \in Callers :
        /\ (t[c].pc = "s344" /\ t[c].exhausted)
              => /\ t[c].waited * 1000 >= inst.timeout
                 /\ (t[c].waited - poll_step) * 1000 < inst.timeout
        /\ (t[c].pc = "s_exit" /\ t[c].exc = ValueErr("ResponseTimeout", FALSE))
              => inst.timeout = max_wait * 1000

\* the statements of _initialize
InitPcs == {"i28", "i33", "i60", "i71", "i77", "i92", "i98", "i106", "i127"}

\* C30: when _initialize raises, at whatever step, _initialized is False
\* and stays so until a build completes: the next _send_message enters
\* _initialize (line 160), whose guard does not return early, and the build
\* starts again from line 31.
C30_FailedBuildIsRebuilt ==
    [][\A c \in Callers :
          /\ (t[c].pc \in InitPcs /\ t'[c].pc = "s_exit") => ~inst'.initialized
          /\ t'[c].initFailed => ~inst'.initialized
          /\ (t[c].initFailed /\ t[c].pc = "s159" /\ t'[c] # t[c])
                => t'[c].pc = "i28"
          /\ (t[c].initFailed /\ t[c].pc = "i28" /\ t'[c] # t[c])
                => (~t'[c].kept /\ t'[c].pc \in {"i33", "s_exit"})]_vars

\* a build that had a context and a page failed; the retry of invoke is
\* building again
C30_Witness ==
    \E c \in Callers :
        /\ t[c].initFailed /\ t[c].pc = "i33" /\ t[c].sends = 2
        /\ inst.context # None /\ inst.page # None /\ ~inst.initialized

\* C31: the text _send_message returns from the per-selector extraction is
\* what the last match of the selector holds when it is read again after
\* the pause (line 354), trimmed; when no awaited operation fails, a
\* submission whose poll accepted a turn returns from that extraction; and
\* whatever _send_message or invoke returns is a non-empty string without
\* leading or trailing whitespace.
C31_ReturnsRereadTrimmed ==
    [][\A c \in Callers :
          /\ (br.env = "calm" /\ t[c].response_found /\ t[c].pc # "s_exit"
                 /\ t'[c].pc = "s_exit" /\ t'[c].exc = NoExc)
                => t[c].pc = "s352"
          /\ (t[c].pc = "s352" /\ t'[c].pc = "s_exit" /\ t'[c].exc = NoExc)
                => /\ Query(dom', t[c].sel) # << >>
                   /\ t'[c].text = [el |-> LastOf(dom', t[c].sel),
                                    txt |-> Strip(dom'.els[LastOf(dom', t[c].sel)].txt)]
          /\ (t'[c].pc = "s_exit" /\ t'[c].exc = NoExc)
                => (StrLen(t'[c].text.txt) > 0 /\ ~t'[c].text.txt.pad)
          /\ (t'[c].pc = "idle" /\ t'[c].out.kind = "text")
                => (StrLen(t'[c].out.txt) > 0 /\ ~t'[c].out.txt.pad)]_vars

\* invoke returned the text read again after acceptance, whose element
\* held surrounding whitespace
C31_Witness ==
    \E c \in Callers :
        /\ t[c].pc = "idle" /\ t[c].out.kind = "text"
        /\ t[c].out.el # 0 /\ dom.els[t[c].out.el].txt.pad
        /\ ~t[c].out.txt.pad /\ StrLen(t[c].out.txt) > min_len

\* C32: with one caller, whenever no operation of the instance is running,
\* _initialized = True implies that playwright, context and page are all
\* set; and no step clears context or page without leaving _initialized
\* False.
C32_ReadyImpliesHandles ==
    /\ [](t[1].pc = "idle" /\ inst.initialized
            => inst.playwright # None /\ inst.context # None /\ inst.page # None)
    /\ [][((inst.context # None /\ inst'.context = None)
              \/ (inst.page # None /\ inst'.page = None))
            => ~inst'.initialized]_vars

\* a second call failed and left the session built and marked ready
C32_Witness ==
    /\ t[1].pc = "idle" /\ t[1].calls = 2 /\ t[1].out.kind = "error"
    /\ inst.initialized /\ inst.context # None /\ inst.page # None
    /\ inst.playwright # None

\* C33: of a list with several system messages the prompt holds the content
\* of the last system message and the contents of the messages that are no
\* system messages, and nothing of the earlier system messages.
C33_OnlyLastSystemKept ==
    (fm.done /\ Len(SystemParts(fm.messages)) >= 2)
        => Unsep(fm.prompt)
               = LastSystem(fm.messages) \o Concat(ContentsOf(UserParts(fm.messages)))

\* C33, amended: of a list with several system messages, when the content
\* of the last system message or the user content is non-empty, the prompt
\* is made of that system content and the user content only (system first,
\* one separator between them); when both are empty the prompt is the
\* contents of all messages, earlier system messages included.  For every
\* list the contents of the messages that are no system messages are in the
\* prompt in list order, one separator between two neighbours.
C33_LastSystemUnlessFallback ==
    fm.done =>
        LET msgs == fm.messages
            several == Len(SystemParts(msgs)) >= 2
            U == UserText(msgs)
        IN /\ (several /\ (SystemExists(msgs) \/ UserExists(msgs)))
                 => fm.prompt = IF SystemExists(msgs) /\ UserExists(msgs)
                                THEN LastSystem(msgs) \o separator \o U
                                ELSE IF UserExists(msgs) THEN U
                                ELSE LastSystem(msgs)
           /\ (several /\ ~SystemExists(msgs) /\ ~UserExists(msgs))
                 => Unsep(fm.prompt) = Concat(ContentsOf(msgs))
           /\ Len(fm.prompt) >= Len(U)
           /\ SubSeq(fm.prompt, Len(fm.prompt) - Len(U) + 1, Len(fm.prompt)) = U

\* two system messages and two user messages, interleaved: the first system
\* content is gone, the user contents follow the second in list order
C33_Witness ==
    /\ fm.done
    /\ fm.messages = <<[role |-> "System", content |-> <<"a">>],
                       [role |-> "Human", content |-> <<"a">>],
                       [role |-> "System", content |-> <<"b">>],
                       [role |-> "Other", content |-> <<"b">>]>>
    /\ fm.prompt = <<"b", "LF", "LF", "a", "LF", "LF", "b">>

\* C34: generate_node raises nothing; it calls llm.invoke at most twice,
\* the second time with the simplified prompt and only after the first call
\* raised or gave an empty answer; and the answer it returns is a non-empty
\* string.
C34_AnswersWithinTwoCalls ==
    /\ [](gn.pc # "none" => gn.calls <= 2)
    /\ [](gn.pc = "done" => /\ gn.raised = NoRaise
                            /\ PiecesLen(gn.answer) > 0
                            /\ gn.simplified = (gn.calls = 2))
    /\ [][(gn.pc # "none" /\ gn'.calls # gn.calls)
            => /\ gn'.calls = gn.calls + 1
               /\ gn'.calls = 2 => (gn.got \in {"raised", "empty"} /\ gn'.simplified)]_vars

\* both calls raised, the second something other than StopIteration: the
\* answer is the apology
C34_Witness ==
    /\ gn.pc = "done" /\ gn.calls = 2 /\ gn.got = "raised"
    /\ gn.kind = "apology" /\ PiecesLen(gn.answer) > 0

\* C35: graph is None exactly when current_settings is None, and a graph
\* that is there was built for current_settings.  A get_or_create_graph
\* that returns leaves current_settings at its arguments and returns the
\* graph, built for them; it builds a graph only when graph was None or
\* current_settings differed from its arguments; when it raises, graph and
\* current_settings are as before.
C35_CacheFollowsSettings ==
    /\ [](srv.pc = "serving"
            => /\ (srv.graph = << >>) <=> (srv.current_settings = << >>)
               /\ srv.graph # << >> => srv.graph[1].settings = srv.current_settings[1])
    /\ [][(srv.pc = "serving" /\ srv'.op = "get")
            => /\ ~srv'.raised
                    => /\ srv'.current_settings = <<srv'.args>>
                       /\ srv'.ret = srv'.graph
                       /\ srv'.ret # << >> /\ srv'.ret[1].settings = srv'.args
               /\ srv'.graph # srv.graph
                    => (srv.graph = << >> \/ srv.current_settings # <<srv'.args>>)
               /\ (~srv'.raised /\ srv.graph # << >> /\ srv.current_settings = <<srv'.args>>)
                    => srv'.graph = srv.graph
               /\ srv'.raised
                    => (srv'.graph = srv.graph
                          /\ srv'.current_settings = srv.current_settings)]_vars

\* get_or_create_graph raised for settings that are not the cached ones:
\* the graph of the earlier settings is still the cached one
C35_Witness ==
    /\ srv.pc = "serving" /\ srv.op = "get" /\ srv.raised
    /\ srv.vectorstore # << >>
    /\ srv.graph # << >> /\ srv.current_settings # <<srv.args>>
    /\ srv.graph[1].settings = srv.current_settings[1]

\* C36: of two callers of invoke on one instance at most one is inside
\* _initialize past its guard (lines 31-153: driver start, lock removal,
\* process kill, launch, page, login): while one caller builds or uses the
\* session, the other does not run the cleanup and the launch.
C36_OneBuildAtATime ==
    \A a, b \in Callers :
        (a # b /\ t[a].pc \in InitPcs \ {"i28"})
            => /\ t[b].pc \notin InitPcs \ {"i28"}
               /\ t[b].pc \in {"i33", "i60", "i71", "i77"} => ~OnPage(a)

\* C37: when close() returns, _initialized is False and context and page are
\* None, whatever they were; the invoke that follows finds the flag False at
\* line 159, enters _initialize, passes its guard (it goes on to the build,
\* or the start of the driver raises) and reaches the try block of line 162
\* only out of a completed build.  close() on an instance on which nothing
\* was ever started returns, and the instance and the browser side are as
\* before.
C37_CloseDiscardsAndRebuilds ==
    /\ [][(t[1].pc = "idle" /\ t'[1].pc = "idle" /\ t'[1] # t[1])
            => /\ t'[1].out.kind \in {"closed", "close_error"}
               /\ t'[1].out.kind = "closed"
                    => (~inst'.initialized /\ inst'.context = None /\ inst'.page = None)
               /\ (inst.playwright = None /\ inst.context = None /\ inst.page = None
                      /\ ~inst.initialized)
                    => (t'[1].out.kind = "closed" /\ inst' = inst /\ br' = br)]_vars
    /\ [][(t[1].out.kind = "closed" /\ t[1].sends = 1 /\ t'[1].pc # t[1].pc)
            => /\ t[1].pc = "s159" => (t'[1].pc = "i28" /\ t'[1].ret = "s160")
               /\ (t[1].pc = "i28" /\ t[1].ret = "s160")
                    => t'[1].pc \in {"i33", "s_exit"}]_vars
    /\ [][(t[1].out.kind = "closed" /\ t[1].sends = 1
              /\ t'[1].pc = "s163" /\ t[1].pc # "s163")
            => /\ t[1].pc \in InitPcs \ {"i28"} /\ t[1].builds = 1
               /\ inst'.initialized /\ inst'.context # None /\ inst'.page # None]_vars

\* the second invoke, made after a close() that returned, has built the
\* session and is at the try block of _send_message
C37_Witness ==
    /\ t[1].out.kind = "closed" /\ t[1].calls = 2 /\ t[1].sends = 1
    /\ t[1].pc = "s163" /\ t[1].builds = 1
    /\ inst.initialized /\ inst.context # None /\ inst.page # None
====
